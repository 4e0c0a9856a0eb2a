---------------------------- MODULE Publication ----------------------------
(***************************************************************************)
(* What publishing a list of events in bulk promises, whatever it does    *)
(* concurrently: at most one document per key, each stored in one step,   *)
(* and a call that resolves finds every key of its list in the store.     *)
(* A call that rejects promises nothing.                                  *)
(***************************************************************************)
CONSTANTS
  Documents,
  KeyOf(_),        \* the key of a document in the unique index
  Calls,
  DocumentsOf(_)   \* what a call publishes

VARIABLES
  docs,      \* the documents in the collection
  answered   \* what each call was answered

vars == <<docs, answered>>

Init ==
  /\ docs = {}
  /\ answered = [c \in Calls |-> "pending"]

Free(d) == \A x \in docs : KeyOf(x) # KeyOf(d)

Store(d) ==
  /\ Free(d)
  /\ docs' = docs \cup {d}
  /\ UNCHANGED answered

Resolve(c) ==
  /\ answered[c] = "pending"
  /\ \A d \in DocumentsOf(c) : ~Free(d)
  /\ answered' = [answered EXCEPT ![c] = "resolved"]
  /\ UNCHANGED docs

\* A failing call may have stored the event that fails: the answer to its
\* commit was lost.
Reject(c) ==
  /\ answered[c] = "pending"
  /\ answered' = [answered EXCEPT ![c] = "rejected"]
  /\ \/ UNCHANGED docs
     \/ \E d \in DocumentsOf(c) : Free(d) /\ docs' = docs \cup {d}

Next ==
  \/ \E d \in Documents : Store(d)
  \/ \E c \in Calls : Resolve(c) \/ Reject(c)

Spec == Init /\ [][Next]_vars
=============================================================================
