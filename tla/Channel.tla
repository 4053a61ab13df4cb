------------------------------ MODULE Channel ------------------------------
(***************************************************************************)
(* What an end-to-end stream promises its two applications: each direction *)
(* is a sequence of chunks; an end is given the other end's chunks in the  *)
(* order they were written, without gaps or repetitions, until it closes;  *)
(* a closed end neither takes nor gives a chunk.  Nothing says that every  *)
(* chunk arrives.                                                          *)
(***************************************************************************)
EXTENDS Naturals, Sequences

CONSTANTS Ends,    \* the two ends
          Chunks   \* what an application may write

VARIABLES sent,    \* sent[e]: the chunks e's application has written
          got,     \* got[e]: the chunks e's application has been given
          closed   \* closed[e]: e has closed

vars == <<sent, got, closed>>

Init ==
  /\ sent = [e \in Ends |-> <<>>]
  /\ got = [e \in Ends |-> <<>>]
  /\ closed = [e \in Ends |-> FALSE]

Write(e) ==
  /\ ~closed[e]
  /\ \E v \in Chunks : sent' = [sent EXCEPT ![e] = Append(@, v)]
  /\ UNCHANGED <<got, closed>>

Deliver(e) ==
  \E o \in Ends \ {e} :
    /\ ~closed[e]
    /\ Len(got[e]) < Len(sent[o])
    /\ got' = [got EXCEPT ![e] = Append(@, sent[o][Len(@) + 1])]
    /\ UNCHANGED <<sent, closed>>

Close(E) ==
  /\ closed' = [e \in Ends |-> closed[e] \/ e \in E]
  /\ UNCHANGED <<sent, got>>

Next ==
  \/ \E e \in Ends : Write(e) \/ Deliver(e)
  \/ \E E \in SUBSET Ends : Close(E)

Spec == Init /\ [][Next]_vars
=============================================================================
