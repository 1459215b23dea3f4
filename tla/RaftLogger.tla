----------------------------- MODULE RaftLogger -----------------------------
(***************************************************************************)
(* The data of source/raft/raft_logger.h: the vector m_entries of one node *)
(* and what the methods of RaftLogger compute from it.  An entry at offset *)
(* k of the vector is at position k + 1 of the sequence; the constructor   *)
(* pushes a dummy entry, so a log is never empty.                          *)
(*                                                                         *)
(* m_mutex, m_commitIndex and m_lastApplied change under the interleavings *)
(* of the node's coroutines and are variables of RaftNode.                 *)
(***************************************************************************)
EXTENDS Naturals, Sequences

CONSTANT Service     \* what a register entry carries (f_name, f_ip, f_port)

ASSUME ServiceAssumption == "" \notin Service /\ "no-op" \notin Service

\* Entry.op and its arguments: "" is the default-constructed op of the dummy.
Op == Service \cup {"", "no-op"}

Entry == [index : Nat, term : Nat, op : Op]

Log == Seq(Entry) \ {<<>>}

InitialLog == << [index |-> 0, term |-> 0, op |-> ""] >>

Last(log) == log[Len(log)]

getLastIndex(log) == Last(log).index

getLastTerm(log) == Last(log).term

\* Wrong: the last entry is not found.
HasEntryShort(log, index) == index + 2 \in DOMAIN log
\* getEntry(index) answers op = "null" when the vector has no such offset.
HasEntry(log, index) == index + 1 \in DOMAIN log

getEntry(log, index) == log[index + 1]

\* The vote rule: (term, index) of a candidate against this log.
is_newer(log, term, index) ==
    \/ term > getLastTerm(log)
    \/ term = getLastTerm(log) /\ index >= getLastIndex(log)

\* The position at which appendEntry's backward search stops: the last entry
\* that carries the index.  The search runs out of the vector when there is
\* none; RaftNode takes that out-of-bounds read as a mismatch.
StopsAt(log, p, index) ==
    /\ p \in DOMAIN log
    /\ log[p].index = index
    /\ \A q \in DOMAIN log : q > p => log[q].index # index

\* Wrong: the term is not compared.
MatchesIndex(log, prevLogIndex, prevLogTerm) ==
    \E p \in DOMAIN log : StopsAt(log, p, prevLogIndex)
\* The backward search found the previous entry.
Matches(log, prevLogIndex, prevLogTerm) ==
    \E p \in DOMAIN log : StopsAt(log, p, prevLogIndex) /\ log[p].term = prevLogTerm

\* Wrong: nothing is truncated.
appendBehind(log, new_entry, prevLogIndex) == Append(log, new_entry)
\* appendEntry(new_entry, prevLogIndex, prevLogTerm) once the search matched:
\* everything behind the previous entry goes, whether it conflicts or not.
appendAfter(log, new_entry, prevLogIndex) ==
    LET p == CHOOSE p \in DOMAIN log : StopsAt(log, p, prevLogIndex)
    IN  Append(SubSeq(log, 1, p), new_entry)

\* appendEntry(new_entry), the leader's, for each op of a sequence: the log
\* assigns the indices.
appendNew(log, term, ops) ==
    log \o [k \in DOMAIN ops |->
              [index |-> getLastIndex(log) + k, term |-> term, op |-> ops[k]]]
=============================================================================
