--------------------------- MODULE JobListPromise ---------------------------
(***************************************************************************)
(* What a job list promises the one thread that manages it                 *)
(* (idParallelJobList, src/idlib/ParallelJobList.h): every item that was    *)
(* added runs exactly once, no item behind a synchronization point starts   *)
(* before every item ahead of the matching signal is over, and Wait hands   *)
(* the list back only when everything is over.  Nothing is said of threads. *)
(***************************************************************************)
EXTENDS Naturals, Sequences

VARIABLES
    items,      \* what the owner added: a sequence of "job", "signal", "sync"
    status,     \* of each item: "todo", "running" or "executed"
    done        \* the list belongs to its owner: it is not submitted

vars == <<items, status, done>>

Kinds == {"job", "signal", "sync"}

Init ==
    /\ items = <<>>
    /\ status = <<>>
    /\ done = TRUE

Add(kind) ==
    /\ done
    /\ items' = Append(items, kind)
    /\ status' = Append(status, "todo")
    /\ UNCHANGED done

Submit ==
    /\ done
    /\ done' = FALSE
    /\ UNCHANGED <<items, status>>

\* A sync that is not behind i, with its signal, holds back what follows it
\* until everything ahead of the signal is executed.
Released(i) ==
    \A j, k, s \in DOMAIN items :
        (j < k /\ k < s /\ s <= i /\ items[k] = "signal" /\ items[s] = "sync")
            => status[j] = "executed"

Start(i) ==
    /\ ~done
    /\ status[i] = "todo"
    /\ Released(i)
    /\ status' = [status EXCEPT ![i] = "running"]
    /\ UNCHANGED <<items, done>>

Finish(i) ==
    /\ ~done
    /\ status[i] = "running"
    /\ status' = [status EXCEPT ![i] = "executed"]
    /\ UNCHANGED <<items, done>>

Return ==
    /\ ~done
    /\ \A i \in DOMAIN items : status[i] = "executed"
    /\ items' = <<>>
    /\ status' = <<>>
    /\ done' = TRUE

Next ==
    \/ \E kind \in Kinds : Add(kind)
    \/ Submit
    \/ \E i \in DOMAIN items : Start(i) \/ Finish(i)
    \/ Return

Spec == Init /\ [][Next]_vars
=============================================================================
