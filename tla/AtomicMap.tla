----------------------------- MODULE AtomicMap ------------------------------
(***************************************************************************)
(* What a trie batch promises its callers: a map with one open transaction *)
(* at most.  Writes of the transaction are seen by its own reads, applied  *)
(* together by Commit or dropped together by RollBack; a published version *)
(* can be opened again and is then what it was.                            *)
(***************************************************************************)
EXTENDS Integers, Sequences, FiniteSets

CONSTANTS Keys, Values, Absent   \* Absent: what a key without a value maps to

VARIABLES
  content,    \* key |-> its value or Absent
  batch,      \* whether a transaction is open
  writes,     \* the transaction's writes: a partial function, Absent for a delete
  versions    \* the published contents

vars == <<content, batch, writes, versions>>

Contents == [Keys -> Values \cup {Absent}]

Apply(w, c) == [k \in Keys |-> IF k \in DOMAIN w THEN w[k] ELSE c[k]]

Init ==
  /\ content = [k \in Keys |-> Absent]
  /\ batch = FALSE
  /\ writes = << >>
  /\ versions = {content}

Begin ==
  /\ ~batch
  /\ batch' = TRUE
  /\ writes' = << >>
  /\ UNCHANGED <<content, versions>>

\* A write: of the open transaction, else at once.
Write(k, v) ==
  /\ IF batch THEN /\ writes' = [i \in DOMAIN writes \cup {k} |->
                                   IF i = k THEN v ELSE writes[i]]
                   /\ UNCHANGED content
              ELSE /\ content' = [content EXCEPT ![k] = v]
                   /\ UNCHANGED writes
  /\ UNCHANGED <<batch, versions>>

Commit ==
  /\ batch
  /\ content' = Apply(writes, content)
  /\ batch' = FALSE
  /\ writes' = << >>
  /\ UNCHANGED versions

RollBack ==
  /\ batch
  /\ batch' = FALSE
  /\ writes' = << >>
  /\ UNCHANGED <<content, versions>>

Publish ==
  /\ versions' = versions \cup {content}
  /\ UNCHANGED <<content, batch, writes>>

Open ==
  /\ content' \in versions
  /\ batch' = FALSE
  /\ writes' = << >>
  /\ UNCHANGED versions

Next ==
  \/ Begin \/ Commit \/ RollBack \/ Publish \/ Open
  \/ \E k \in Keys, v \in Values \cup {Absent} : Write(k, v)

Spec == Init /\ [][Next]_vars
=============================================================================
