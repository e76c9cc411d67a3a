-------------------------------- MODULE FontTool -------------------------------
(***************************************************************************)
(* The font generator, src/tool/src/main.rs: it follows the paths of an    *)
(* SVG document command by command with a pen, collects a drawing of lines *)
(* for each, sorts the drawings from top to bottom and centers them.       *)
(*                                                                         *)
(* Coordinates are integers in any unit; what is printed is in halves of   *)
(* it, as the center is halfway between two points.  The parameters of a   *)
(* command come flat, as the svg crate (external) parses them.             *)
(***************************************************************************)
EXTENDS Integers, Sequences, SequencesExt

CONSTANT Documents  \* SVG documents: sequences of paths, which are sequences of commands

ASSUME DocumentsAssumption ==
  Documents \subseteq Seq(Seq([letter : STRING, params : Seq(Int)]))

VARIABLES
  document,  \* the document
  path,      \* the number of the path being followed
  command,   \* the number of its next command
  drawings,  \* the drawings of the paths before it
  lines,     \* the lines of its drawing
  line,      \* the line being drawn
  pen,       \* the position of the pen
  printed,   \* what is printed in the end
  phase      \* "paths", "printed" or "panicked"

drawing == <<lines, line, pen>>
vars == <<document, path, command, drawings, drawing, printed, phase>>

-----------------------------------------------------------------------------
(* Commands; lower case letters are relative                               *)

\* chunks(2); an odd number of parameters panics.
Chunks(params) == [k \in 1..Len(params) \div 2 |-> <<params[2 * k - 1], params[2 * k]>>]

Known(c) ==
  \/ c.letter \in {"m", "l", "L"} /\ Len(c.params) % 2 = 0
  \/ c.letter \in {"h", "H", "v", "V"}

\* Where a parameter takes the pen.
To(c, from, param) ==
  CASE c.letter \in {"m", "l"} -> <<from[1] + param[1], from[2] + param[2]>>
    [] c.letter = "L" -> param
    [] c.letter = "h" -> <<from[1] + param, from[2]>>
    [] c.letter = "H" -> <<param, from[2]>>
    [] c.letter = "v" -> <<from[1], from[2] + param>>
    [] c.letter = "V" -> <<from[1], param>>

\* The points that a command draws, each from the one before it, the first
\* from the pen.  The mutant starts every one at the pen.
Params(c) == IF c.letter \in {"m", "l", "L"} THEN Chunks(c.params) ELSE c.params
TraceFromPen(c) == [k \in DOMAIN Params(c) |-> To(c, pen, Params(c)[k])]
Trace(c) ==
  LET at[k \in 0..Len(Params(c))] ==
        IF k = 0 THEN pen ELSE To(c, at[k - 1], Params(c)[k])
  IN [k \in DOMAIN Params(c) |-> at[k]]

-----------------------------------------------------------------------------
(* The drawings                                                            *)

Coordinates(d, axis) == { p[axis] : p \in UNION { Range(d[n]) : n \in DOMAIN d } }

\* center(): the middle of the bounding box, in halves, becomes the origin.
Centered(d) ==
  LET middle(axis) == Max(Coordinates(d, axis)) + Min(Coordinates(d, axis))
      Place(p) == <<2 * p[1] - middle(1), 2 * p[2] - middle(2)>>
  IN [n \in DOMAIN d |-> [k \in DOMAIN d[n] |-> Place(d[n][k])]]

\* sort_by the vertical coordinate of the first point; it keeps the order of
\* equals.  The n-th drawing goes behind the last one of those before it in
\* the document, in their order, that begins at its height or above.
Top(d) == d[1][1][2]
Inserted(ds, order, n) ==
  LET behind == Max({0} \union { r \in 1..n - 1 : Top(ds[order[r]]) <= Top(ds[n]) })
  IN InsertAt(order, behind + 1, n)
Sorted(ds) ==
  LET order[n \in 0..Len(ds)] == IF n = 0 THEN <<>> ELSE Inserted(ds, order[n - 1], n)
  IN [r \in DOMAIN ds |-> ds[order[Len(ds)][r]]]

Handled(ds) == [n \in DOMAIN ds |-> Centered(ds[n])]

-----------------------------------------------------------------------------
(* main                                                                    *)

Init ==
  /\ document \in Documents
  /\ path = 1 /\ command = 1
  /\ drawings = <<>> /\ printed = <<>>
  /\ lines = <<>> /\ line = <<>> /\ pen = <<0, 0>>
  /\ phase = "paths"

InPath == phase = "paths" /\ path \in DOMAIN document
TheCommand == document[path][command]

\* A move begins a new line, whose first point is where it goes to.
Draw ==
  /\ InPath /\ command \in DOMAIN document[path] /\ Known(TheCommand)
  /\ LET trace == Trace(TheCommand)
         moves == TheCommand.letter = "m" /\ line # <<>>
     IN /\ lines' = IF moves THEN Append(lines, line) ELSE lines
        /\ line' = (IF moves THEN <<>> ELSE line) \o trace
        /\ pen' = Last(<<pen>> \o trace)
  /\ command' = command + 1
  /\ UNCHANGED <<document, path, drawings, printed, phase>>

Unknown ==
  /\ InPath /\ command \in DOMAIN document[path] /\ ~Known(TheCommand)
  /\ phase' = "panicked"
  /\ UNCHANGED <<document, path, command, drawings, drawing, printed>>

\* The path is at its end; the next one starts afresh.  The mutants forget
\* the last line, or to start the next one.
EndOf(all, next) ==
  /\ InPath /\ command = Len(document[path]) + 1
  /\ drawings' = Append(drawings, all)
  /\ path' = path + 1 /\ command' = 1
  /\ lines' = <<>> /\ line' = next /\ pen' = <<0, 0>>
  /\ UNCHANGED <<document, printed, phase>>
AllLines == IF line # <<>> THEN Append(lines, line) ELSE lines
EndWithoutLast == EndOf(lines, <<>>)
EndWithLine == EndOf(AllLines, line)
EndPath == EndOf(AllLines, <<>>)

\* All are sorted, centered and printed; one without a line panics.  The
\* mutant centers them before it sorts them.
PrintAs(result(_)) ==
  /\ phase = "paths" /\ path = Len(document) + 1
  /\ IF \E n \in DOMAIN drawings : drawings[n] = <<>>
     THEN phase' = "panicked" /\ UNCHANGED printed
     ELSE phase' = "printed" /\ printed' = result(drawings)
  /\ UNCHANGED <<document, path, command, drawings, drawing>>
PrintCentered == PrintAs(LAMBDA ds : Sorted(Handled(ds)))
PrintDrawings == PrintAs(LAMBDA ds : Handled(Sorted(ds)))

Next == Draw \/ Unknown \/ EndPath \/ PrintDrawings

Spec == Init /\ [][Next]_vars

-----------------------------------------------------------------------------
(* Properties                                                              *)

TypeOK ==
  /\ document \in Documents /\ phase \in {"paths", "printed", "panicked"}
  /\ path \in 1..Len(document) + 1 /\ Len(drawings) = path - 1
  /\ InPath => command \in 1..Len(document[path]) + 1
  /\ \A n \in DOMAIN lines : lines[n] # <<>>
  /\ line # <<>> => pen = Last(line)

\* What the first n commands of a path draw, without a pen: one element for
\* each point, which sets an axis or goes by some distance along it, in the
\* line that the latest move begins.
Moves(commands, n) == Cardinality({ i \in 1..n : commands[i].letter = "m" })
ElementsOf(commands, i) ==
  [k \in DOMAIN Params(commands[i]) |->
    [letter |-> commands[i].letter, param |-> Params(commands[i])[k],
     stroke |-> Moves(commands, i)]]
Elements(commands, n) == FlattenSeq([i \in 1..n |-> ElementsOf(commands, i)])
Sets(e, axis) == e.letter = "L" \/ (e.letter = "H" /\ axis = 1) \/ (e.letter = "V" /\ axis = 2)
Along(e, axis) ==
  CASE e.letter \in {"m", "l", "L"} -> e.param[axis]
    [] e.letter \in {"h", "H"} -> IF axis = 1 THEN e.param ELSE 0
    [] e.letter \in {"v", "V"} -> IF axis = 2 THEN e.param ELSE 0

\* The k-th coordinate is the last one that was set, and all distances since.
Position(es, k, axis) ==
  LET base == Max({1} \union { j \in 1..k : Sets(es[j], axis) })
      sum[j \in base..k] == (IF j = base THEN 0 ELSE sum[j - 1]) + Along(es[j], axis)
  IN sum[k]

Follows(d, es) ==
  /\ FlattenSeq(d) = [k \in DOMAIN es |-> <<Position(es, k, 1), Position(es, k, 2)>>]
  /\ { 1 + Len(FlattenSeq(SubSeq(d, 1, n - 1))) : n \in DOMAIN d }
       = { k \in DOMAIN es : k = 1 \/ es[k].stroke # es[k - 1].stroke }

\* The lines follow the path as far as it is read, from the first command to
\* the last, and begin where it moves.
PathsFollowed ==
  /\ \A n \in DOMAIN drawings : Follows(drawings[n], Elements(document[n], Len(document[n])))
  /\ InPath => Follows(AllLines, Elements(document[path], command - 1))

\* What is printed are the drawings from top to bottom, each behind all that
\* begin above it, and behind those before it in the document that begin at
\* the same height, with its shape kept and its bounding box around the origin.
SameShape(a, b) ==
  /\ DOMAIN a = DOMAIN b
  /\ \A n \in DOMAIN a :
       /\ DOMAIN a[n] = DOMAIN b[n]
       /\ \A k \in DOMAIN a[n], axis \in {1, 2} :
            a[n][k][axis] - a[1][1][axis] = 2 * (b[n][k][axis] - b[1][1][axis])
Ahead(n) == { m \in DOMAIN drawings : \/ Top(drawings[m]) < Top(drawings[n])
                                     \/ (Top(drawings[m]) = Top(drawings[n]) /\ m < n) }
PrintedInOrder ==
  phase = "printed" =>
    /\ Len(printed) = Len(drawings)
    /\ \A n \in DOMAIN drawings : SameShape(printed[1 + Cardinality(Ahead(n))], drawings[n])
    /\ \A r \in DOMAIN printed, axis \in {1, 2} :
         Max(Coordinates(printed[r], axis)) + Min(Coordinates(printed[r], axis)) = 0
==============================================================================
