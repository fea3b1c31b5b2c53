-------------------------- MODULE RecordingArchive --------------------------
(***************************************************************************)
(* source_recording_archive.cpp: a finished drive's recipe, its segments    *)
(* and their bytes, read from the files while the bridge appends to its     *)
(* recipe and openpilot writes and deletes segments.  One request at a time. *)
(*                                                                          *)
(* A recipe file is the routes of its whole lines, and whether a line is    *)
(* begun after them; a line is two blocks, and sizes are in blocks.  Every  *)
(* process of the bridge starts a file; they are numbered in that order.    *)
(* A segment is the blocks of each of its files, 0 for none.  Names,        *)
(* queries and the text of an answer are left out; a query that does not    *)
(* parse is a 400.                                                          *)
(***************************************************************************)
EXTENDS Integers, Sequences, SequencesExt, FiniteSetsExt, Picking

CONSTANTS
  RouteIds,
  NoRoute,    \* no recipe is asked for
  Media,      \* fcamera.hevc, ecamera.hevc and rlog.zst
  MaxSegment, \* the route's segments are 0 .. MaxSegment
  MaxListed,  \* the thousand segments a manifest may list
  MaxRecipe,  \* kMaxRecipeBytes, in blocks
  MaxChunk,   \* kMaxChunk, in blocks
  MaxMedia,  \* bound: blocks of a segment's file
  MaxFiles,   \* bound: recipe files
  MaxLines    \* bound: lines of one

ASSUME ArchiveAssumption ==
  /\ NoRoute \notin RouteIds
  /\ {MaxSegment, MaxListed, MaxRecipe, MaxChunk, MaxMedia, MaxFiles, MaxLines} \subseteq Nat

VARIABLES
  recipes,  \* the recipe files; the bridge writes the last
  segments, \* per segment, its files
  serving,  \* "none", "recipe" or "manifest"
  route,    \* the one whose recipe is asked for
  names,    \* files or segments still to be read, of those the directory listed
  body,     \* what has been collected
  due,      \* history: the whole lines of the route when the request came
  answer    \* the last answer; history: what was due

diskVars    == <<recipes, segments>>
servingVars == <<serving, route, names, body, due>>
archiveVars == <<diskVars, servingVars, answer>>

Segments  == 0 .. MaxSegment
NoReply  == [route |-> NoRoute, status |-> 0, body |-> << >>, due |-> {}]

-----------------------------------------------------------------------------
(* The bridge and openpilot. *)

\* The last file of the process before may end in a line that was cut off.
BridgeStarts ==
  /\ Len(recipes) < MaxFiles
  /\ recipes' = Append(recipes, [lines |-> << >>, begun |-> FALSE])
  /\ UNCHANGED <<segments, servingVars, answer>>

BeginLine ==
  /\ recipes # << >> /\ ~ Last(recipes).begun
  /\ recipes' = [recipes EXCEPT ![Len(recipes)].begun = TRUE]
  /\ UNCHANGED <<segments, servingVars, answer>>

EndLine(r) ==
  /\ recipes # << >> /\ Last(recipes).begun /\ Len(Last(recipes).lines) < MaxLines
  /\ recipes' = [recipes EXCEPT ![Len(recipes)] =
                   [lines |-> Append(@.lines, r), begun |-> FALSE]]
  /\ UNCHANGED <<segments, servingVars, answer>>

WriteMedia(n, m) ==
  /\ segments[n][m] < MaxMedia
  /\ segments' = [segments EXCEPT ![n][m] = @ + 1]
  /\ UNCHANGED <<recipes, servingVars, answer>>

DeleteMedia(n, m) ==
  /\ segments' = [segments EXCEPT ![n][m] = 0]
  /\ UNCHANGED <<recipes, servingVars, answer>>

-----------------------------------------------------------------------------
(* A recipe. *)

Reply(status, content) ==
  /\ answer' = [route |-> route, status |-> status, body |-> content, due |-> due]
  /\ serving' = "none" /\ route' = NoRoute /\ names' = << >> /\ body' = << >> /\ due' = {}
  /\ UNCHANGED diskVars

Line(f, i) == [file |-> f, line |-> i]

\* Mutant: what follows the last newline is taken for an event as well.
LinesOf_with_last(f, r) ==
  LET n == Len(recipes[f].lines)
      m == IF recipes[f].begun THEN n + 1 ELSE n
  IN Picked([i \in 1 .. m |-> Line(f, i)], {i \in 1 .. m : i > n \/ recipes[f].lines[i] = r})

\* The lines that name the route; an incomplete last event is ignored.
LinesOf(f, r) ==
  LET lines == recipes[f].lines IN
    Picked([i \in 1 .. Len(lines) |-> Line(f, i)], {i \in 1 .. Len(lines) : lines[i] = r})

\* The directory lists the files that are there now.
AskRecipe(r) ==
  /\ serving = "none"
  /\ serving' = "recipe" /\ route' = r
  /\ names' = [f \in 1 .. Len(recipes) |-> f]
  /\ due' = {l \in {Line(f, i) : f \in 1 .. Len(recipes), i \in 1 .. MaxLines} :
               /\ l.line <= Len(recipes[l.file].lines)
               /\ recipes[l.file].lines[l.line] = r}
  /\ answer' = NoReply
  /\ UNCHANGED <<body, diskVars>>

Blocks(f) == 2 * Len(recipes[f].lines) + (IF recipes[f].begun THEN 1 ELSE 0)

\* A file as it is when its size is taken.  One that is too large, whatever is in it, or
\* a body that is, ends the request.
ReadRecipe ==
  /\ serving = "recipe" /\ names # << >>
  /\ LET f == Head(names)
         all == body \o LinesOf(f, route)
     IN IF Blocks(f) > MaxRecipe \/ 2 * Len(all) > MaxRecipe
          THEN Reply(413, << >>)
          ELSE /\ body' = all /\ names' = Tail(names)
               /\ UNCHANGED <<serving, route, due, answer, diskVars>>

RecipeEnds ==
  /\ serving = "recipe" /\ names = << >>
  /\ IF body = << >> THEN Reply(404, << >>) ELSE Reply(200, body)

-----------------------------------------------------------------------------
(* A manifest, and a range. *)

\* In whatever order the directory lists them.
AskManifest ==
  /\ serving = "none"
  /\ serving' = "manifest"
  /\ names' \in SetToSeqs({n \in Segments : \E m \in Media : segments[n][m] > 0})
  /\ answer' = NoReply
  /\ UNCHANGED <<route, body, due, diskVars>>

\* std::sort.
Ascending(s) == SetToSortSeq(ToSet(s), <)

\* None of its files is missing or empty.
Complete(n) == \A m \in Media : segments[n][m] > 0

ReadSegment ==
  /\ serving = "manifest" /\ names # << >> /\ Len(body) <= MaxListed
  /\ body' = IF Complete(Head(names)) THEN Append(body, Head(names)) ELSE body
  /\ names' = Tail(names)
  /\ UNCHANGED <<serving, route, due, answer, diskVars>>

ManifestEnds ==
  /\ serving = "manifest" /\ (names = << >> \/ Len(body) > MaxListed)
  /\ IF Len(body) > MaxListed THEN Reply(413, << >>)
     ELSE IF body = << >> THEN Reply(404, << >>)
     ELSE Reply(200, Ascending(body))

RangeStatus(size, offset, length) ==
  IF length = 0 \/ length > MaxChunk THEN 400
  ELSE IF size = 0 THEN 404
  ELSE IF offset > size \/ length > size - offset THEN 400
  ELSE 200

\* From fstat to the last pread on one descriptor: the file may grow or be deleted
\* meanwhile, its bytes stay.
AnswerRange(n, m, offset, length) ==
  /\ serving = "none"
  /\ answer' = [NoReply EXCEPT !.status = RangeStatus(segments[n][m], offset, length)]
  /\ UNCHANGED <<diskVars, servingVars>>

-----------------------------------------------------------------------------
ArchiveInit ==
  /\ recipes = << >> /\ segments = [n \in Segments |-> [m \in Media |-> 0]]
  /\ serving = "none" /\ route = NoRoute /\ names = << >> /\ body = << >> /\ due = {}
  /\ answer = NoReply

ArchiveNext ==
  \/ BridgeStarts \/ BeginLine \/ \E r \in RouteIds : EndLine(r)
  \/ \E n \in Segments, m \in Media : WriteMedia(n, m) \/ DeleteMedia(n, m)
  \/ \E r \in RouteIds : AskRecipe(r)
  \/ ReadRecipe \/ RecipeEnds
  \/ AskManifest \/ ReadSegment \/ ManifestEnds
  \/ \E n \in Segments, m \in Media, offset \in 0 .. MaxMedia, length \in 0 .. MaxMedia :
       AnswerRange(n, m, offset, length)

ArchiveSpec == ArchiveInit /\ [][ArchiveNext]_archiveVars

-----------------------------------------------------------------------------
(* Properties. *)

ArchiveTypeOK ==
  /\ \A f \in DOMAIN recipes : recipes[f].lines \in Seq(RouteIds) /\ recipes[f].begun \in BOOLEAN
  /\ segments \in [Segments -> [Media -> 0 .. MaxMedia]]
  /\ serving \in {"none", "recipe", "manifest"} /\ route \in RouteIds \cup {NoRoute}
  /\ answer.status \in {0, 200, 400, 404, 413}

\* A recipe that is served has every event of the route that was whole when it was asked
\* for, each once and in the order of its file, and nothing that is half written or of
\* another route, although the bridge goes on writing.
RecipeIsWhole ==
  answer.status = 200 /\ answer.route # NoRoute =>
    /\ answer.due \subseteq ToSet(answer.body)
    /\ \A i \in DOMAIN answer.body :
         LET l == answer.body[i] IN
           /\ l.line <= Len(recipes[l.file].lines)
           /\ recipes[l.file].lines[l.line] = answer.route
           /\ \A j \in 1 .. i - 1 :
                answer.body[j].file = l.file => answer.body[j].line < l.line
=============================================================================
