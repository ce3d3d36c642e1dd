----------------------------- MODULE RoomQueue -----------------------------
(***************************************************************************)
(* What room.Manager promises, without its bookkeeping: a room is a queue  *)
(* of participants in arrival order, whoever stands at the head owns it,   *)
(* and a room that has emptied or been closed is never opened again.       *)
(***************************************************************************)
EXTENDS Naturals, Sequences

CONSTANTS RoomID, ParticipantID, Nobody

VARIABLES
    queue,      \* queue[r]: the members of room r, longest-standing first
    leader,     \* leader[r]: who owns r, Nobody when there is no room
    opened      \* the rooms that were ever opened

vars == <<queue, leader, opened>>

In(q, p) == \E i \in DOMAIN q : q[i] = p

\* q without the i-th member: everybody else keeps their relative seniority.
Without(q, i) == SubSeq(q, 1, i - 1) \o SubSeq(q, i + 1, Len(q))

\* Ownership is always derived from seniority.
HeadLeads == leader' = [r \in RoomID |-> IF queue'[r] = <<>> THEN Nobody
                                                          ELSE Head(queue'[r])]

Init ==
    /\ queue = [r \in RoomID |-> <<>>]
    /\ leader = [r \in RoomID |-> Nobody]
    /\ opened = {}

Open(r, p) ==
    /\ r \notin opened
    /\ \A s \in RoomID : ~In(queue[s], p)
    /\ queue' = [queue EXCEPT ![r] = <<p>>]
    /\ opened' = opened \cup {r}

Enter(r, p) ==
    /\ queue[r] # <<>>
    /\ \A s \in RoomID : ~In(queue[s], p)
    /\ queue' = [queue EXCEPT ![r] = Append(@, p)]
    /\ UNCHANGED opened

Depart(r) ==
    /\ \E i \in DOMAIN queue[r] : queue' = [queue EXCEPT ![r] = Without(@, i)]
    /\ UNCHANGED opened

Close(r) ==
    /\ queue[r] # <<>>
    /\ queue' = [queue EXCEPT ![r] = <<>>]
    /\ UNCHANGED opened

Next ==
    /\ \E r \in RoomID :
          \/ \E p \in ParticipantID : Open(r, p) \/ Enter(r, p)
          \/ Depart(r)
          \/ Close(r)
    /\ HeadLeads

Spec == Init /\ [][Next]_vars
=============================================================================
