---------------------------- MODULE KnownIssues ----------------------------
(***************************************************************************)
(* known-issues.json: the findings a user has accepted. Each command reads *)
(* the file, and writes it back changed; nothing locks it, and it is       *)
(* written in place.                                                       *)
(***************************************************************************)
EXTENDS Naturals, Sequences, FiniteSets

CONSTANTS Users, Fingerprints, Statuses, MaxCommands, Torn

VARIABLES
  file,     \* sequence of [id, fingerprint, status], or Torn
  command,  \* user -> what it is about to write, and what it has read
  given,    \* commands so far
  removed   \* an issue was removed

vars == <<file, command, given, removed>>

NoCommand == [to |-> "nothing"]

Ids == 1 .. MaxCommands

\* Mutant: an accepted finding is always added.
UpsertNew(issues, f) ==
  Append(issues, [id |-> Len(issues) + 1, fingerprint |-> f, status |-> "accepted"])

\* The issue of a fingerprint is accepted in its place; a new one is numbered
\* by how many there are.
Upsert(issues, f) ==
  IF \E i \in DOMAIN issues : issues[i].fingerprint = f
  THEN [i \in DOMAIN issues |->
          IF issues[i].fingerprint = f THEN [issues[i] EXCEPT !.status = "accepted"] ELSE issues[i]]
  ELSE Append(issues, [id |-> Len(issues) + 1, fingerprint |-> f, status |-> "accepted"])

HasId(issues, id) == \E i \in DOMAIN issues : issues[i].id = id

\* The first issue of that id is edited.
Edited(issues, id, status) ==
  LET first == CHOOSE i \in DOMAIN issues :
                 issues[i].id = id /\ \A j \in 1 .. i - 1 : issues[j].id # id
  IN  [issues EXCEPT ![first].status = status]

\* The k-th of the positions S.
Nth(S, k) == CHOOSE i \in S : Cardinality({l \in S : l <= i}) = k

Kept(issues, id) == {i \in DOMAIN issues : issues[i].id # id}

\* Every issue of that id is removed; the others stay in their order.
Without(issues, id) ==
  [k \in 1 .. Cardinality(Kept(issues, id)) |-> issues[Nth(Kept(issues, id), k)]]

\* known_issue_findings: what a report shows as accepted.
KnownAccepted(findings) ==
  {f \in findings : \E i \in DOMAIN file : file[i].fingerprint = f /\ file[i].status = "accepted"}

-----------------------------------------------------------------------------
Init ==
  /\ file = <<>>
  /\ command = [u \in Users |-> NoCommand]
  /\ given = 0
  /\ removed = FALSE

\* A file that is no JSON is refused, by every command.
Give(u, changed, removes) ==
  /\ command[u] = NoCommand /\ given < MaxCommands
  /\ file # Torn
  /\ given' = given + 1
  /\ command' = [command EXCEPT ![u] = [to |-> "save", read |-> file, write |-> changed, removes |-> removes]]
  /\ UNCHANGED <<file, removed>>

Accept(u) == \E f \in Fingerprints : file # Torn /\ Give(u, Upsert(file, f), FALSE)

Edit(u) ==
  \E id \in Ids, s \in Statuses :
    file # Torn /\ HasId(file, id) /\ Give(u, Edited(file, id, s), FALSE)

\* Removing an id that does not exist rewrites the file as it was.
Remove(u) == \E id \in Ids : file # Torn /\ Give(u, Without(file, id), HasId(file, id))

Save(u) ==
  /\ command[u] # NoCommand
  /\ file' = command[u].write
  /\ removed' = (removed \/ command[u].removes)
  /\ command' = [command EXCEPT ![u] = NoCommand]
  /\ UNCHANGED given

\* A command that dies in its write leaves half a file.
Die(u) ==
  /\ command[u] # NoCommand
  /\ command' = [command EXCEPT ![u] = NoCommand]
  /\ file' \in {file, Torn}
  /\ UNCHANGED <<given, removed>>

Next == \E u \in Users : Accept(u) \/ Edit(u) \/ Remove(u) \/ Save(u) \/ Die(u)

Spec == Init /\ [][Next]_vars

-----------------------------------------------------------------------------
(* However the commands overlap, a fingerprint is in the list once, so that *)
(* editing its issue decides whether reports show it as accepted; and until *)
(* an issue is removed, an id names one issue.                              *)
IssuesStayApart ==
  file # Torn =>
    /\ \A i \in DOMAIN file :
         file[i].status = "accepted" <=> file[i].fingerprint \in KnownAccepted(Fingerprints)
    /\ \A i, j \in DOMAIN file : i # j /\ file[i].id = file[j].id => removed

-----------------------------------------------------------------------------
(* The invariant of the proof.                                              *)

Issue == [id : Nat, fingerprint : Fingerprints, status : Statuses \cup {"accepted"}]

\* No fingerprint twice and, until an issue is removed, each is numbered by its
\* position.
Apart(issues, removal) ==
  /\ issues \in Seq(Issue)
  /\ \A i, j \in DOMAIN issues : issues[i].fingerprint = issues[j].fingerprint => i = j
  /\ ~removal => \A i \in DOMAIN issues : issues[i].id = i

\* What a command is about to write keeps them apart too.
IssuesInv ==
  /\ removed \in BOOLEAN
  /\ file # Torn => Apart(file, removed)
  /\ DOMAIN command = Users
  /\ \A u \in Users : command[u] # NoCommand =>
       command[u].removes \in BOOLEAN /\ Apart(command[u].write, removed \/ command[u].removes)
=============================================================================
