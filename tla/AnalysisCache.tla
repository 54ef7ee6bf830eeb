--------------------------- MODULE AnalysisCache ---------------------------
(***************************************************************************)
(* The cache of per-file scanner results: entry files, each named after    *)
(* the identity of what it is the result of, and one index from files to   *)
(* identities. A scan reads the index at its first file, writes an entry   *)
(* as soon as it has computed it, and the whole index at its end; other    *)
(* scans and edits of the sources go on meanwhile. A balanced scan looks   *)
(* at the metadata of a source before it reads it, a full scan has read    *)
(* all sources before it asks the cache.                                   *)
(***************************************************************************)
EXTENDS Integers, Sequences, FiniteSets

CONSTANTS
  Scanners, Files, Contents,
  Configs,     \* rules of a scan
  MaxEntries,  \* entries kept when an index is written
  MaxScans, MaxTime, MaxEdits,
  None

VARIABLES
  source,   \* file -> [content, stamp]: the time of its last change
  now,
  blurred,  \* files that were changed twice in one tick of the clock
  index,    \* index.json: file -> identity, or None
  entries,  \* the entry files, oldest first: identities
  scan,     \* scanner -> its scan
  served,   \* the latest result
  scans, edits

vars == <<source, now, blurred, index, entries, scan, served, scans, edits>>

-----------------------------------------------------------------------------
\* The result of a file is a function of its content and of the rules, and the
\* name of an entry is a digest of the identity.
Identity(content, config, signature) ==
  [content |-> content, config |-> config, signature |-> signature]

Result(identity) == <<identity.content, identity.config>>

Entries == {entries[i] : i \in DOMAIN entries}

Entry(f, identity) == [file |-> f, identity |-> identity]

\* A rewritten entry is the newest.
Written(e) == Append(SelectSeq(entries, LAMBDA o : o # e), e)

LastOf(s, n) == IF Len(s) <= n THEN s ELSE SubSeq(s, Len(s) - n + 1, Len(s))

\* What the scan knows of a file: of the index it has read.
Prior(s, f) == IF s.index = None THEN index[f] ELSE s.index[f]

\* Mutant: the metadata are taken when the result is stored.
SignatureLate(s, f) == source[f].stamp

\* _source_signature, taken before the source is read
Signature(s, f) == s.signature

\* No reason to invalidate, and an entry whose identity is that of now.
Hits(s, f, identity) ==
  /\ Prior(s, f) = identity
  /\ Entry(f, identity) \in Entries

-----------------------------------------------------------------------------
Idle == [pc |-> "idle"]

Init ==
  /\ source \in [Files -> [content : Contents, stamp : {0}]]
  /\ now = 1
  /\ blurred = {}
  /\ index = [f \in Files |-> None]
  /\ entries = <<>>
  /\ scan = [q \in Scanners |-> Idle]
  /\ served = None
  /\ scans = 0 /\ edits = 0

\* `had`: what each file contained since the scan began.
Begin(q) ==
  /\ scan[q].pc = "idle" /\ scans < MaxScans
  /\ \E config \in Configs, full \in BOOLEAN :
       scan' = [scan EXCEPT ![q] =
                  [pc |-> "look", config |-> config, full |-> full, index |-> None, dirty |-> FALSE,
                   left |-> Files, signature |-> None,
                   text |-> [f \in Files |-> source[f].content],
                   had |-> [f \in Files |-> {source[f].content}]]]
  /\ scans' = scans + 1
  /\ UNCHANGED <<source, now, blurred, index, entries, served, edits>>

Serve(s, f, result) ==
  served' = [file |-> f, result |-> result, config |-> s.config, had |-> s.had[f]]

\* get_or_compute, and get_or_compute_from_path of an unchanged file: a hit, or
\* on to the source.
Look(q) ==
  LET s == scan[q]
      f == CHOOSE g \in s.left : TRUE
      loaded == IF s.index = None THEN index ELSE s.index
      signature == IF s.full THEN None ELSE source[f].stamp
      content == IF s.full \/ Prior(s, f) = None THEN s.text[f] ELSE Prior(s, f).content
      identity == Identity(content, s.config, signature)
  IN  /\ s.pc = "look" /\ s.left # {}
      /\ IF Hits(s, f, identity)
         THEN /\ Serve(s, f, Result(Prior(s, f)))
              /\ scan' = [scan EXCEPT ![q].index = loaded, ![q].left = @ \ {f}]
         ELSE /\ scan' = [scan EXCEPT ![q].index = loaded, ![q].pc = "read", ![q].signature = signature]
              /\ UNCHANGED served
      /\ UNCHANGED <<source, now, blurred, index, entries, scans, edits>>

Read(q) ==
  LET s == scan[q]
      f == CHOOSE g \in s.left : TRUE
      text == IF s.full THEN s.text ELSE [s.text EXCEPT ![f] = source[f].content]
  IN  /\ s.pc = "read"
      /\ scan' = [scan EXCEPT ![q] = [s EXCEPT !.pc = "store", !.text = text]]
      /\ UNCHANGED <<source, now, blurred, index, entries, served, scans, edits>>

\* An entry that cannot be written is not in the index either.
Store(q) ==
  LET s == scan[q]
      f == CHOOSE g \in s.left : TRUE
      identity == Identity(s.text[f], s.config, Signature(s, f))
  IN  /\ s.pc = "store"
      /\ Serve(s, f, Result(identity))
      /\ \E written \in BOOLEAN :
           /\ entries' = IF written THEN Written(Entry(f, identity)) ELSE entries
           /\ LET rows == IF written THEN [s.index EXCEPT ![f] = identity] ELSE s.index
              IN  scan' = [scan EXCEPT ![q] = [s EXCEPT !.pc = "look", !.left = s.left \ {f},
                                                        !.index = rows, !.dirty = s.dirty \/ written]]
      /\ UNCHANGED <<source, now, blurred, index, scans, edits>>

\* evidence, of a scan that wrote nothing
Finish(q) ==
  /\ scan[q].pc = "look" /\ scan[q].left = {} /\ ~scan[q].dirty
  /\ scan' = [scan EXCEPT ![q] = Idle]
  /\ UNCHANGED <<source, now, blurred, index, entries, served, scans, edits>>

\* _prune_entries, and the rows of what it removed
Prune(q) ==
  LET kept == LastOf(entries, MaxEntries)
      gone == Entries \ {kept[i] : i \in DOMAIN kept}
      s == scan[q]
  IN  /\ s.pc = "look" /\ s.left = {} /\ s.dirty
      /\ entries' = kept
      /\ scan' = [scan EXCEPT ![q].pc = "flush",
                    ![q].index = [f \in Files |-> IF s.index[f] # None /\ Entry(f, s.index[f]) \in gone
                                                  THEN None ELSE s.index[f]]]
      /\ UNCHANGED <<source, now, blurred, index, served, scans, edits>>

Flush(q) ==
  /\ scan[q].pc = "flush"
  /\ index' = scan[q].index
  /\ scan' = [scan EXCEPT ![q] = Idle]
  /\ UNCHANGED <<source, now, blurred, entries, served, scans, edits>>

\* Files are replaced whole: a scan that dies has written them or not.
Die(q) ==
  /\ scan[q].pc # "idle"
  /\ scan' = [scan EXCEPT ![q] = Idle]
  /\ UNCHANGED <<source, now, blurred, index, entries, served, scans, edits>>

Edit(f) ==
  /\ edits < MaxEdits
  /\ \E c \in Contents \ {source[f].content} :
       /\ source' = [source EXCEPT ![f] = [content |-> c, stamp |-> now]]
       /\ scan' = [q \in Scanners |-> IF scan[q].pc = "idle" THEN Idle
                                      ELSE [scan[q] EXCEPT !.had[f] = @ \cup {c}]]
  /\ blurred' = IF source[f].stamp = now THEN blurred \cup {f} ELSE blurred
  /\ edits' = edits + 1
  /\ UNCHANGED <<now, index, entries, served, scans>>

Tick ==
  /\ now < MaxTime
  /\ now' = now + 1
  /\ UNCHANGED <<source, blurred, index, entries, scan, served, scans, edits>>

Next ==
  \/ \E q \in Scanners :
       Begin(q) \/ Look(q) \/ Read(q) \/ Store(q) \/ Finish(q) \/ Prune(q) \/ Flush(q) \/ Die(q)
  \/ \E f \in Files : Edit(f)
  \/ Tick

Spec == Init /\ [][Next]_vars

-----------------------------------------------------------------------------
(* Whatever scans and edits overlap, and whichever index was written last:  *)
(* a result is that of the rules of its scan and of a content the file had  *)
(* during it, never of an older one, unless the file was changed twice      *)
(* within one tick, which the metadata do not show.                         *)
ServedIsOfThisScan ==
  (served # None /\ served.file \notin blurred) =>
    /\ served.result[2] = served.config
    /\ served.result[1] \in served.had

-----------------------------------------------------------------------------
(* The invariant of the proof.                                              *)

\* An identity is not newer than its file, and one with the metadata of the file
\* has its content, unless the metadata do not show the latest change.
IsKnown(f, identity) ==
  identity.signature \in Nat =>
    /\ identity.signature <= source[f].stamp
    /\ identity.signature = source[f].stamp /\ f \notin blurred =>
         identity.content = source[f].content

IndexIsKnown(m) ==
  /\ DOMAIN m = Files
  /\ \A f \in Files : m[f] # None => IsKnown(f, m[f])

\* What a scan has in hand: contents its files had meanwhile, an index of known
\* identities and, of the file it is at, what it will know.
InHand(s) ==
  s.pc # "idle" =>
    LET f == CHOOSE g \in s.left : TRUE
    IN  /\ s.pc \in {"look", "read", "store", "flush"}
        /\ DOMAIN s = {"pc", "config", "full", "index", "dirty", "left", "signature", "text", "had"}
        /\ s.left \subseteq Files /\ DOMAIN s.text = Files /\ DOMAIN s.had = Files
        /\ \A x \in Files : s.text[x] \in s.had[x] /\ source[x].content \in s.had[x]
        /\ (s.index = None /\ s.pc = "look" /\ ~s.dirty) \/ IndexIsKnown(s.index)
        /\ s.pc \in {"read", "store"} => s.left # {} /\ (s.full => s.signature = None)
        /\ s.pc = "read" /\ s.signature \in Nat => s.signature <= source[f].stamp
        /\ s.pc = "store" => IsKnown(f, Identity(s.text[f], s.config, s.signature))

ResultsInv ==
  /\ now \in Nat /\ DOMAIN source = Files
  /\ \A f \in Files : source[f].stamp \in Nat /\ source[f].stamp <= now
  /\ IndexIsKnown(index)
  /\ DOMAIN scan = Scanners /\ \A q \in Scanners : InHand(scan[q])
  /\ ServedIsOfThisScan
=============================================================================
