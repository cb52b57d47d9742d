-------------------------------- MODULE Feed --------------------------------
(***************************************************************************)
(* What whoever asks an agent is promised: the run tells its events and    *)
(* closes with one last event; the asker hears them in order, none twice   *)
(* and none left out, however often the page is left and opened again; and *)
(* a question stands as done only when all of its events were heard.       *)
(***************************************************************************)
EXTENDS Naturals, Sequences, SequencesExt

CONSTANT Askers

VARIABLES told, heard, standing    \* by asker

Closing(e) == e.type \in {"done", "error"}

(* The run tells something more, unless it has closed. *)
Tell(a) ==
  /\ ~ \E i \in DOMAIN told[a] : Closing(told[a][i])
  /\ IsStrictPrefix(told[a], told'[a])
  /\ \A i \in 1..(Len(told'[a]) - 1) : ~ Closing(told'[a][i])
  /\ heard'[a] = heard[a]
  /\ standing'[a] = standing[a]

Hear(a) ==
  /\ standing[a] = "running"
  /\ heard[a] # told[a]
  /\ heard'[a] = SubSeq(told[a], 1, Len(heard[a]) + 1)
  /\ standing'[a] = IF Last(heard'[a]).type = "error" THEN "failed" ELSE "running"
  /\ told'[a] = told[a]

Settle(a) ==
  /\ standing[a] = "running"
  /\ \/ standing'[a] = "failed"
     \/ standing'[a] = "done" /\ heard[a] = told[a] /\ Last(told[a]).type = "done"
  /\ heard'[a] = heard[a]
  /\ told'[a] = told[a]

Ask(a) ==
  /\ standing[a] = "none"
  /\ standing'[a] = "running"
  /\ heard'[a] = heard[a]
  /\ told'[a] = told[a]

Forget(a) ==
  /\ standing'[a] = "gone"
  /\ heard'[a] = <<>>
  /\ told'[a] = told[a]

Still(a) ==
  /\ told'[a] = told[a]
  /\ heard'[a] = heard[a]
  /\ standing'[a] = standing[a]

FeedInit ==
  /\ told = [a \in Askers |-> <<>>]
  /\ heard = [a \in Askers |-> <<>>]
  /\ standing = [a \in Askers |-> "none"]

(* The askers do not wait for each other; a restart moves several at once. *)
FeedNext ==
  \A a \in Askers :
    Tell(a) \/ Hear(a) \/ Settle(a) \/ Ask(a) \/ Forget(a) \/ Still(a)

FeedSpec == FeedInit /\ [][FeedNext]_<<told, heard, standing>>
=============================================================================
