----------------------------- MODULE ReplayWindow -----------------------------
(***************************************************************************)
(* ReplayWindow of wire.cpp: what one end of a session accepts of the      *)
(* frames the other sends.  A frame is its sequence number and its nonce.  *)
(***************************************************************************)
EXTENDS Naturals, Sequences

\* A session that has not read a frame yet.
EmptyWindow == [any |-> FALSE, last |-> 0, nonces |-> <<>>]

Advances(w, frame) == w.any => frame.sequence > w.last

Unused(w, frame) == \A k \in DOMAIN w.nonces : w.nonces[k] # frame.nonce

Admissible(w, frame) == frame.nonce # 0 /\ Advances(w, frame) /\ Unused(w, frame)

\* Only the last `width` nonces are remembered; the sequence is the ordering authority.
Accepted(w, frame, width) ==
  LET seen == Append(w.nonces, frame.nonce)
  IN  [any |-> TRUE, last |-> frame.sequence,
       nonces |-> IF Len(seen) > width THEN Tail(seen) ELSE seen]
=============================================================================
