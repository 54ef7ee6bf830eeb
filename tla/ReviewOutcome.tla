--------------------------- MODULE ReviewOutcome ---------------------------
(***************************************************************************)
(* What a Fresh Review promises a reader who looks at the lifecycle record *)
(* first: one packet is opened and never changes; it is closed at most     *)
(* once, by one answer, and all the evidence of the closed review appears  *)
(* at that moment and comes from that answer.                              *)
(***************************************************************************)
CONSTANTS Packets, Answers, NotRun, Absent, PacketFiles, EvidenceFiles

VARIABLES
  record,    \* the lifecycle record, Absent until the packet is open
  packet,    \* the packet files a reviewer may rely on, Absent until then
  evidence   \* the files of the closed review, Absent until it is closed

vars == <<record, packet, evidence>>

Init ==
  /\ record = Absent
  /\ packet = Absent
  /\ evidence = Absent

\* The packet, whole, becomes visible.
Open ==
  /\ record = Absent
  /\ \E k \in Packets :
       /\ record' = [packet |-> k, answer |-> NotRun]
       /\ packet' \in [PacketFiles -> {Absent, record'}]
  /\ UNCHANGED evidence

\* The review is closed by an answer to its own packet.
Close ==
  /\ record # Absent
  /\ record.answer = NotRun
  /\ \E a \in Answers :
       /\ record' = [packet |-> record.packet, answer |-> a]
       /\ evidence' = [f \in EvidenceFiles |-> record']
  /\ UNCHANGED packet

Next == Open \/ Close

Spec == Init /\ [][Next]_vars
=============================================================================
