----------------------------- MODULE Leaderboard -----------------------------
(***************************************************************************)
(* The leaderboard: the control API answers a statement of this comma's      *)
(* drives from a cache while the drive list and the key are as they were,   *)
(* and else runs the drive stats script, which signs a new one.  One request *)
(* at a time (g_leaderboard_mutex); the after-drive script replaces the     *)
(* drive list whenever it likes.                                            *)
(*                                                                          *)
(* The list and the key are versions: files replaced whole, so that size,   *)
(* time and inode tell two of them apart.  The script is killed at its      *)
(* deadline, or fails, between any two of its steps.                        *)
(***************************************************************************)
EXTENDS Integers

CONSTANTS
  MaxLists,     \* bound: versions of the drive list
  MaxKeys,      \* bound: keys made
  MaxStatements \* bound: statements signed with one key

ASSUME LeaderboardAssumption ==
  MaxLists \in Nat /\ MaxKeys \in Nat /\ MaxStatements \in Nat

VARIABLES
  list,      \* data/drives.json
  key,       \* data/leaderboard-key.json; 0: none
  counter,   \* data/leaderboard-seq.json: whose, and the last seq
  cache,     \* data/leaderboard-statement.json: the inputs it names, and the statement
  request,   \* "none", or where the script of the request is
  inputs,    \* leaderboard_statement_inputs(), taken before signing
  statement, \* what the script prints
  asked,     \* history: the drive list when the request came
  answered,  \* history: the last answer, with the list and key it had to be made from
  handed     \* history: the statements handed out

scriptVars == <<request, inputs, statement, asked>>
boardVars  == <<list, key, counter, cache, scriptVars, answered, handed>>

NoInputs    == [list |-> 0, key |-> 0]
NoStatement == [covers |-> 0, key |-> 0, seq |-> 0]
NoCache     == [inputs |-> NoInputs, statement |-> NoStatement]
NoAnswer    == [statement |-> NoStatement, asked |-> 0, key |-> 0]

-----------------------------------------------------------------------------
\* The after-drive script, at the end of a drive.
ListChanges ==
  /\ list < MaxLists
  /\ list' = list + 1
  /\ UNCHANGED <<key, counter, cache, scriptVars, answered, handed>>

-----------------------------------------------------------------------------
(* leaderboard_register_response. *)

\* The key is made if there is none, or made anew, and saved before it signs.
Register(rotate) ==
  /\ request = "none"
  /\ IF key = 0 \/ rotate
       THEN key < MaxKeys /\ key' = key + 1 /\ request' = "newkey"
       ELSE UNCHANGED <<key, request>>
  /\ UNCHANGED <<list, counter, cache, inputs, statement, asked, answered, handed>>

RegisterRequest == \E rotate \in BOOLEAN : Register(rotate)

\* Its counter starts at 0, unless the script is killed before: then the counter is another key's.
ResetCounter ==
  /\ request = "newkey"
  /\ counter' \in {[key |-> key, last |-> 0], counter}
  /\ request' = "none"
  /\ UNCHANGED <<list, key, cache, inputs, statement, asked, answered, handed>>

-----------------------------------------------------------------------------
(* leaderboard_statement_response. *)

Inputs == [list |-> list, key |-> key]

Answer(s, when) ==
  /\ answered' = [statement |-> s, asked |-> when, key |-> key]
  /\ handed' = handed \cup {s}

\* leaderboard_cached_statement.
Cached == cache # NoCache /\ cache.inputs = Inputs

\* The last statement again, when it names the inputs as they are now.
AnswerFromCache ==
  /\ request = "none"
  /\ Cached
  /\ Answer(cache.statement, list)
  /\ UNCHANGED <<list, key, counter, cache, scriptVars>>

AskScript ==
  /\ request = "none"
  /\ ~ Cached
  /\ inputs' = Inputs /\ asked' = list
  /\ request' = "begun"
  /\ UNCHANGED <<list, key, counter, cache, statement, answered, handed>>

\* The next seq is on disk before anything is signed with it; a counter of another key is 0.
NextSeq == IF counter.key = key THEN counter.last + 1 ELSE 1

CountStatement ==
  /\ request = "begun"
  /\ key # 0 /\ NextSeq <= MaxStatements
  /\ counter' = [key |-> key, last |-> NextSeq]
  /\ request' = "counted"
  /\ UNCHANGED <<list, key, cache, inputs, statement, asked, answered, handed>>

SignStatement ==
  /\ request = "counted"
  /\ statement' = [covers |-> list, key |-> key, seq |-> counter.last]
  /\ request' = "signed"
  /\ UNCHANGED <<list, key, counter, cache, inputs, asked, answered, handed>>

\* Mutant: the inputs are taken when the statement is there.
KeepStatement_of_now ==
  /\ request = "signed"
  /\ Answer(statement, asked)
  /\ cache' = [inputs |-> Inputs, statement |-> statement]
  /\ request' = "none" /\ inputs' = NoInputs /\ statement' = NoStatement
  /\ UNCHANGED <<list, key, counter, asked>>

\* Kept for the next request, if it can be written.
KeepStatement ==
  /\ request = "signed"
  /\ Answer(statement, asked)
  /\ cache' \in {[inputs |-> inputs, statement |-> statement], cache}
  /\ request' = "none" /\ inputs' = NoInputs /\ statement' = NoStatement
  /\ UNCHANGED <<list, key, counter, asked>>

\* No key, no way to sign, or the deadline: there is nothing to hand back.
ScriptFails ==
  /\ request \in {"begun", "counted", "signed"}
  /\ cache' = NoCache
  /\ request' = "none" /\ inputs' = NoInputs /\ statement' = NoStatement
  /\ UNCHANGED <<list, key, counter, asked, answered, handed>>

-----------------------------------------------------------------------------
LeaderboardInit ==
  /\ list = 0 /\ key = 0 /\ counter = [key |-> 0, last |-> 0]
  /\ cache = NoCache
  /\ request = "none" /\ inputs = NoInputs /\ statement = NoStatement /\ asked = 0
  /\ answered = NoAnswer /\ handed = {}

LeaderboardNext ==
  \/ ListChanges
  \/ RegisterRequest
  \/ ResetCounter
  \/ AnswerFromCache \/ AskScript
  \/ CountStatement \/ SignStatement \/ KeepStatement \/ ScriptFails

LeaderboardSpec == LeaderboardInit /\ [][LeaderboardNext]_boardVars

-----------------------------------------------------------------------------
(* Properties. *)

SomeInputs    == [list : 0 .. MaxLists, key : 0 .. MaxKeys]
SomeStatement == [covers : 0 .. MaxLists, key : 0 .. MaxKeys, seq : 0 .. MaxStatements]

LeaderboardTypeOK ==
  /\ list \in 0 .. MaxLists /\ key \in 0 .. MaxKeys
  /\ counter \in [key : 0 .. MaxKeys, last : 0 .. MaxStatements]
  /\ cache \in [inputs : SomeInputs, statement : SomeStatement]
  /\ request \in {"none", "newkey", "begun", "counted", "signed"}
  /\ inputs \in SomeInputs /\ statement \in SomeStatement /\ asked \in 0 .. MaxLists
  /\ answered \in [statement : SomeStatement, asked : 0 .. MaxLists, key : 0 .. MaxKeys]
  /\ handed \subseteq SomeStatement

\* An answer covers every drive that was in the list when it was asked for, cached or not,
\* whatever ended while an earlier one was signed; it is signed with the key of the moment;
\* and two statements of one key that differ have different seqs, the later covering more.
CoversWhatWasThere ==
  /\ answered.statement.covers >= answered.asked
  /\ answered.statement.key = answered.key
  /\ \A s, t \in handed : s.key = t.key /\ s.seq <= t.seq =>
       s.covers <= t.covers /\ (s.seq = t.seq => s = t)
=============================================================================
