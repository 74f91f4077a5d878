------------------------------ MODULE Chunking ------------------------------
(***************************************************************************)
(* DocumentProcessor.parse (knowledge/processor.py): a document is read     *)
(* line by line into units, the units are grouped into sections, and a      *)
(* section that is too long is cut into overlapping pieces.  One action is  *)
(* one turn of a loop of the code.  A line is chosen when it is read, so    *)
(* every document of up to MaxLines lines of the given kinds is parsed.     *)
(***************************************************************************)
EXTENDS Naturals, Sequences, FiniteSets, SequencesExt

CONSTANTS
    LineKinds,  \* [kind, size, level, title, char, run, info]: what a line can be
    MaxLines,   \* bound: lines of a document
    MaxChars,   \* characters of a piece
    Overlap     \* characters of overlap, fewer than MaxChars

ASSUME OverlapIsSmaller ==
    MaxLines \in Nat /\ MaxChars \in Nat \ {0} /\ Overlap \in 0..(MaxChars - 1)

\* A fence is made of characters.
ASSUME KindsAreWellFormed ==
    \A kind \in LineKinds : /\ kind.size \in Nat /\ kind.level \in Nat
                            /\ kind.kind = "fence" => kind.char # "none"

VARIABLES
    media,    \* "markdown" or "plain"
    doc,      \* the lines read so far: a kind with its start and end
    stack,    \* open headings: <<level, title>>
    pending,  \* the lines of the open paragraph
    fence,    \* the open fence: [char, run], or NoFence
    fenced,   \* the lines since it opened
    units,    \* [start, end, path, heading]
    phase,    \* "lines", "sections" or "parsed"
    todo,     \* sections not yet cut
    pos,      \* where the next piece of the first of them starts
    pieces    \* [start, end, path]

chunkVars == <<media, doc, stack, pending, fence, fenced, units, phase, todo, pos, pieces>>

NoFence == [char |-> "none", run |-> 0]

ChunkInit ==
    /\ media \in {"markdown", "plain"}
    /\ doc = <<>> /\ stack = <<>> /\ pending = <<>> /\ fence = NoFence /\ fenced = <<>>
    /\ units = <<>> /\ phase = "lines" /\ todo = <<>> /\ pos = 0 /\ pieces = <<>>

-----------------------------------------------------------------------------
(* Lines.                                                                   *)

\* _split_lines: offsets in the text; a line ends before its line break.
LineAt(kind) ==
    LET start == IF doc = <<>> THEN 0 ELSE Last(doc).end + 1
    IN [start |-> start, end |-> start + kind.size, is |-> kind]

IsBlank(line) == line.is.kind = "blank"

\* _fence_open: what follows backticks may not hold a backtick.
OpensFence(line) ==
    line.is.kind = "fence" /\ (line.is.char = "backtick" => line.is.info # "backtick")

\* _closes_fence: the same character, no shorter, and nothing after it.
ClosesFence(line, open) ==
    /\ line.is.kind = "fence"
    /\ line.is.char = open.char
    /\ line.is.run >= open.run
    /\ line.is.info = "none"

\* _heading: one to six marks and a title.
IsHeading(line) == line.is.kind = "heading"

Path == [i \in DOMAIN stack |-> stack[i][2]]
UnitOf(lines, path) == [start |-> lines[1].start, end |-> Last(lines).end,
                        path |-> path, heading |-> FALSE]

\* flush_pending: the open paragraph becomes a unit.
WithParagraph == IF pending = <<>> THEN units ELSE Append(units, UnitOf(pending, Path))

\* Mutant: a heading leaves its siblings open.
PopDeeper(level) == SubSeq(stack, 1, Max({0} \cup {i \in DOMAIN stack : stack[i][1] <= level}))

\* Headings of the same or a deeper level are popped, down to the first that is above.
PopTo(level) == SubSeq(stack, 1, Max({0} \cup {i \in DOMAIN stack : stack[i][1] < level}))

\* Inside a fence everything is code until a line closes it.
FencedLine(line) ==
    /\ media = "markdown" /\ fence # NoFence
    /\ IF ClosesFence(line, fence)
       THEN /\ units' = Append(units, UnitOf(Append(fenced, line), Path))
            /\ fence' = NoFence /\ fenced' = <<>>
       ELSE /\ fenced' = Append(fenced, line)
            /\ UNCHANGED <<units, fence>>
    /\ UNCHANGED <<stack, pending>>

OpeningLine(line) ==
    /\ media = "markdown" /\ fence = NoFence /\ OpensFence(line)
    /\ units' = WithParagraph
    /\ pending' = <<>>
    /\ fence' = [char |-> line.is.char, run |-> line.is.run]
    /\ fenced' = <<line>>
    /\ UNCHANGED stack

BlankLine(line) ==
    /\ IsBlank(line) /\ fence = NoFence
    /\ units' = WithParagraph
    /\ pending' = <<>>
    /\ UNCHANGED <<stack, fence, fenced>>

HeadingLine(line) ==
    /\ media = "markdown" /\ fence = NoFence /\ IsHeading(line)
    /\ stack' = Append(PopTo(line.is.level), <<line.is.level, line.is.title>>)
    /\ units' = Append(WithParagraph, [start |-> line.start, end |-> line.end,
                                       path |-> Path', heading |-> TRUE])
    /\ pending' = <<>>
    /\ UNCHANGED <<fence, fenced>>

\* Plain text has paragraphs only: its marks and fences are words.
TextLine(line) ==
    /\ fence = NoFence /\ ~IsBlank(line)
    /\ media = "markdown" => ~OpensFence(line) /\ ~IsHeading(line)
    /\ pending' = Append(pending, line)
    /\ UNCHANGED <<stack, fence, fenced, units>>

ReadLine ==
    /\ phase = "lines"
    /\ Len(doc) < MaxLines
    /\ \E kind \in LineKinds :
          LET line == LineAt(kind)
          IN /\ doc' = Append(doc, line)
             /\ \/ FencedLine(line) \/ OpeningLine(line) \/ BlankLine(line)
                \/ HeadingLine(line) \/ TextLine(line)
    /\ UNCHANGED <<media, phase, todo, pos, pieces>>

-----------------------------------------------------------------------------
(* Sections and pieces.                                                     *)

\* _groups: consecutive units with one heading path.  A group begins where the path
\* changes; one that is a heading and nothing else has no piece.
Begins(all, i) == i = 1 \/ all[i - 1].path # all[i].path
IsHeadingOnly(all, i) == all[i].heading /\ (i = Len(all) \/ Begins(all, i + 1))
SectionStarts(all) == {i \in DOMAIN all : Begins(all, i) /\ ~IsHeadingOnly(all, i)}

\* Its units, with the ends at which it may be cut.
UnitsFrom(all, i) == {m \in i..Len(all) : \A j \in (i + 1)..m : ~Begins(all, j)}
SectionFrom(all, i) ==
    [start |-> all[i].start, end |-> all[Max(UnitsFrom(all, i))].end, path |-> all[i].path,
     ends |-> {all[m].end : m \in UnitsFrom(all, i)}]

UpTo(S, i) == Cardinality({j \in S : j <= i})
Sections(all) ==
    LET starts == SectionStarts(all)
    IN [place \in 1..Cardinality(starts) |->
          SectionFrom(all, CHOOSE i \in starts : UpTo(starts, i) = place)]

\* The text ends: an open fence is one unit of code, an open paragraph another.
EndOfText ==
    /\ phase = "lines" /\ doc # <<>>
    /\ LET all == IF fence # NoFence THEN Append(units, UnitOf(fenced, Path))
                  ELSE WithParagraph
       IN /\ units' = all
          /\ todo' = Sections(all)
          /\ pos' = IF Sections(all) = <<>> THEN 0 ELSE Sections(all)[1].start
    /\ phase' = "sections"
    /\ pending' = <<>> /\ fence' = NoFence /\ fenced' = <<>>
    /\ UNCHANGED <<media, doc, stack, pieces>>

Section == todo[1]
LineEnds == {l.end : l \in {m \in ToSet(doc) : m.end > m.start}}

\* _largest_at_most.
InReach(ends) == {e \in ends : pos < e /\ e <= pos + MaxChars}

\* The end of a unit, else the end of a line, else a cut within the line.
CutAt ==
    IF InReach(Section.ends) # {} THEN Max(InReach(Section.ends))
    ELSE IF InReach(LineEnds) # {} THEN Max(InReach(LineEnds))
    ELSE pos + MaxChars

Later(a, b) == IF a > b THEN a ELSE b
BackFrom(cut) == IF cut > Overlap THEN cut - Overlap ELSE 0

CutPiece ==
    /\ phase = "sections" /\ todo # <<>>
    /\ Section.end - pos > MaxChars
    /\ pieces' = Append(pieces, [start |-> pos, end |-> CutAt, path |-> Section.path])
    /\ pos' = Later(BackFrom(CutAt), pos + 1)
    /\ UNCHANGED <<media, doc, stack, pending, fence, fenced, units, phase, todo>>

LastPiece ==
    /\ phase = "sections" /\ todo # <<>>
    /\ Section.end - pos <= MaxChars
    /\ pieces' = IF Section.end > pos
                 THEN Append(pieces, [start |-> pos, end |-> Section.end, path |-> Section.path])
                 ELSE pieces
    /\ todo' = Tail(todo)
    /\ pos' = IF Len(todo) > 1 THEN todo[2].start ELSE pos
    /\ UNCHANGED <<media, doc, stack, pending, fence, fenced, units, phase>>

Parsed ==
    /\ phase = "sections" /\ todo = <<>>
    /\ phase' = "parsed"
    /\ UNCHANGED <<media, doc, stack, pending, fence, fenced, units, todo, pos, pieces>>

ChunkNext == ReadLine \/ EndOfText \/ CutPiece \/ LastPiece \/ Parsed

-----------------------------------------------------------------------------
(* Properties.                                                              *)

ChunkTypeOK ==
    /\ media \in {"markdown", "plain"}
    /\ Len(doc) <= MaxLines
    /\ phase \in {"lines", "sections", "parsed"}
    /\ \A u \in ToSet(units) : u.start <= u.end /\ u.heading \in BOOLEAN
    /\ \A g \in ToSet(todo) : g.ends # {}
    /\ pos \in Nat
    /\ \A p \in ToSet(pieces) : p.start \in Nat /\ p.end \in Nat

\* What a text says by itself: the fence a line is in, and the headings above it that
\* no later heading of their level or above has closed.
Text == [media |-> media, lines |-> doc]

FenceAfter(open, line) ==
    IF open # NoFence THEN IF ClosesFence(line, open) THEN NoFence ELSE open
    ELSE IF OpensFence(line) THEN [char |-> line.is.char, run |-> line.is.run]
    ELSE NoFence
OpenBefore(lines) ==
    LET open[k \in 1..(Len(lines) + 1)] ==
          IF k = 1 THEN NoFence ELSE FenceAfter(open[k - 1], lines[k - 1])
    IN open

Headings(text) ==
    {k \in DOMAIN text.lines : /\ text.media = "markdown" /\ IsHeading(text.lines[k])
                              /\ OpenBefore(text.lines)[k] = NoFence}
Above(text, k) ==
    {i \in Headings(text) :
       /\ i <= k
       /\ \A j \in Headings(text) :
             i < j /\ j <= k => text.lines[j].is.level > text.lines[i].is.level}
IsCode(text, k) ==
    text.media = "markdown" /\ (OpenBefore(text.lines)[k] # NoFence \/ OpensFence(text.lines[k]))
Body(text) ==
    {k \in DOMAIN text.lines :
       IsCode(text, k) \/ (~IsBlank(text.lines[k]) /\ k \notin Headings(text))}

\* The titles of the headings above a line, each as deep as there are such headings down to it.
IsPath(path, text, k) ==
    /\ DOMAIN path = 1..Cardinality(Above(text, k))
    /\ \A i \in Above(text, k) : path[UpTo(Above(text, k), i)] = text.lines[i].is.title

Holds(piece, line) == piece.start < line.end /\ line.start < piece.end

\* Parsing loses and mislabels nothing: every character of the text under a
\* heading is in a piece that carries the headings in force at its line, no piece
\* reaches into text under other headings or beyond the size limit, and each one
\* starts after the one before it, so the cutting ends (processor.py:428).
PiecesCover ==
    /\ \A p \in ToSet(pieces) : p.start < p.end /\ p.end - p.start <= MaxChars
    /\ \A i \in 1..(Len(pieces) - 1) : pieces[i].start < pieces[i + 1].start
    /\ phase = "parsed" =>
         /\ \A k \in Body(Text) : \A at \in doc[k].start..(doc[k].end - 1) :
               \E p \in ToSet(pieces) : p.start <= at /\ at < p.end /\ IsPath(p.path, Text, k)
         /\ \A p \in ToSet(pieces) : \A k \in Body(Text) \cup Headings(Text) :
               Holds(p, doc[k]) => IsPath(p.path, Text, k)
=============================================================================
