----------------------------- MODULE ChangeSets ------------------------------
(* What a person reviews at the end of a guided execution: the difference of *)
(* two commits, as git prints it, read into a ChangeSet (inspectChangeSet of *)
(* git-workspace.ts, change-set.ts).                                         *)
EXTENDS Integers, Sequences, FiniteSets, SequencesExt

CONSTANTS Paths,       \* paths in the order git lists them, numbers from 1
          OwnPaths,    \* those under .binaflow
          Changes,     \* bound: changed files
          MaxLines     \* bound: lines of a changed file

VARIABLES diff,        \* the files that differ: [path, old, kind, shape]
          script,      \* how the text of the changed files differs, line by line
          stage,       \* "committed" | "inspected" | "review" | "approved" | "refused"
          files        \* the files of the ChangeSet

changeVars == <<diff, script, stage, files>>

NoPath == 0
Context == 1           \* lines git prints around a change (3 in the program)
\* A file is added, modified, deleted or renamed; a binary file and one that is only
\* renamed, or changes only its mode, have no lines in the patch.
Change == [path : Paths, old : {NoPath}, kind : {"A", "M", "D"}, shape : {"text", "bare"}]
          \cup {c \in [path : Paths, old : Paths, kind : {"R"}, shape : {"text", "bare"}] : c.path # c.old}
Names(c) == {c.path, c.old} \ {NoPath}
\* A line is kept (" "), added or removed; only a last line is ever blank here.

ScriptOf(c) == CASE c.kind = "A" -> SelectSeq(script, LAMBDA l : l.kind = "+")
                 [] c.kind = "D" -> SelectSeq(script, LAMBDA l : l.kind = "-")
                 [] OTHER -> script
Plain(kinds) == [i \in DOMAIN kinds |-> [kind |-> kinds[i], blank |-> FALSE]]
LastBlank(text) == [text EXCEPT ![Len(text)].blank = TRUE]
Texts == LET plain == {Plain(kinds) : kinds \in UNION {[1..n -> {" ", "+", "-"}] : n \in 1..MaxLines}}
         IN plain \cup {LastBlank(text) : text \in plain}

\* What git prints: a section for each file, with its hunks.
Differs(s, i) == \E j \in DOMAIN s : s[j].kind # " " /\ j - i \in -Context..Context
ChangeStarts(s) == {i \in DOMAIN s : Differs(s, i) /\ (i = 1 \/ ~Differs(s, i - 1))}
Size(s, from) == CHOOSE n \in 1..Len(s) : /\ \A i \in from..from + n - 1 : Differs(s, i)
                                           /\ (from + n > Len(s) \/ ~Differs(s, from + n))
Count(s, from, to, kind) == Cardinality({i \in from..to : s[i].kind # kind})
First(n, before) == IF n = 0 THEN before ELSE before + 1
HunkAt(s, i) ==
    LET last == i + Size(s, i) - 1
        olds == Count(s, i, last, "+")
        news == Count(s, i, last, "-")
    IN [oldStart |-> First(olds, Count(s, 1, i - 1, "+")), oldLines |-> olds,
        newStart |-> First(news, Count(s, 1, i - 1, "-")), newLines |-> news,
        text |-> SubSeq(s, i, last)]
HunksOf(s) == LET starts == SetToSortSeq(ChangeStarts(s), <) IN [n \in DOMAIN starts |-> HunkAt(s, starts[n])]
Sorted == SetToSortSeq(diff, LAMBDA c, d : c.path < d.path)
Section(c) == [oldPath |-> IF c.shape = "bare" \/ c.kind = "A" THEN NoPath ELSE IF c.old # NoPath THEN c.old ELSE c.path,
               newPath |-> IF c.shape = "bare" \/ c.kind = "D" THEN NoPath ELSE c.path,
               hunks |-> IF c.shape = "bare" THEN <<>> ELSE HunksOf(ScriptOf(c))]

\* The output is trimmed: blank lines of context at its end are lost.
TrimEnd(text) == LET kept == {i \in DOMAIN text : text[i].kind # " " \/ ~text[i].blank}
                 IN SubSeq(text, 1, CHOOSE n \in kept : \A i \in kept : i <= n)
Patch == LET sections == [n \in DOMAIN Sorted |-> Section(Sorted[n])]
             last == Last(sections)
         IN IF last.hunks = <<>> THEN sections
            ELSE Append(Front(sections),
                        [last EXCEPT !.hunks[Len(last.hunks)].text = TrimEnd(@)])

------------------------------------------------------------------------------
\* parseNameStatuses: what concerns .binaflow is dropped.
Statuses == SelectSeq(Sorted, LAMBDA c : Names(c) \cap OwnPaths = {})

\* Mutant: a renamed file goes by the name it had.
PathOf_Old(section) == IF section.oldPath # NoPath THEN section.oldPath ELSE section.newPath
\* A section goes by the new name of the file.
PathOf(section) == IF section.newPath # NoPath THEN section.newPath ELSE section.oldPath

\* The first entry of that path, or of that old path: of the old path of an added file
\* the program knows as little as of that of a file that was not renamed.
StatusesOf(section) ==
    SelectSeq(Statuses, LAMBDA c : c.path = PathOf(section) \/ c.old = section.oldPath)

\* Mutant: a line that was removed counts as one of the new file.
Counts_Swapped(kind, side) == kind # IF side = "old" THEN "-" ELSE "+"
\* A removed line is one of the old file, an added one of the new file.
Counts(kind, side) == kind # IF side = "old" THEN "+" ELSE "-"

\* The number of a line, counted on from the header of its hunk.
Number(hunk, i, side) ==
    (IF side = "old" THEN hunk.oldStart ELSE hunk.newStart)
        + Cardinality({j \in 1..i - 1 : Counts(hunk.text[j].kind, side)})
ParsedLine(hunk, i) ==
    [kind |-> hunk.text[i].kind,
     oldLine |-> IF hunk.text[i].kind = "+" THEN 0 ELSE Number(hunk, i, "old"),
     newLine |-> IF hunk.text[i].kind = "-" THEN 0 ELSE Number(hunk, i, "new")]
ParsedHunk(hunk) == [oldLines |-> hunk.oldLines, newLines |-> hunk.newLines,
                     lines |-> [i \in DOMAIN hunk.text |-> ParsedLine(hunk, i)]]

File(path, status, binary, hunks) ==
    [path |-> path, kind |-> status.kind, old |-> status.old, binary |-> binary, hunks |-> hunks]
Parsed(section) == File(PathOf(section), Head(StatusesOf(section)), FALSE,
                        [n \in DOMAIN section.hunks |-> ParsedHunk(section.hunks[n])])
Known(section) == PathOf(section) \notin OwnPaths \cup {NoPath} /\ StatusesOf(section) # <<>>
Found == {Parsed(section) : section \in {s \in ToSet(Patch) : Known(s)}}
\* Entries without a section are listed as binary files.
Bare == {File(c.path, c, TRUE, <<>>) : c \in {s \in ToSet(Statuses) : \A f \in Found : f.path # s.path}}

ChangesInit ==
    /\ stage = "committed" /\ files = {}
    /\ \/ /\ script = Plain(<<"-", "+">>)
          /\ \E change \in [1..Changes -> Change] : diff = {change[n] : n \in 1..Changes}
          /\ \A c, d \in diff : c = d \/ Names(c) \cap Names(d) = {}
       \/ /\ script \in Texts /\ \E i \in DOMAIN script : script[i].kind # " "
          /\ diff = {[path |-> 1, old |-> NoPath, kind |-> "M", shape |-> "text"]}

Inspect == /\ stage = "committed" /\ stage' = "inspected"
           /\ files' = Found \cup Bare
           /\ UNCHANGED <<diff, script>>

\* createChangeSet refuses two files of one path, a rename without its old path, a path
\* under .binaflow and a line number below 1.
Valid == /\ \A f, g \in files : f.path = g.path => f = g
         /\ \A f \in files : /\ f.kind = "R" => f.old # NoPath
                              /\ {f.path, f.old} \cap OwnPaths = {}
                              /\ \A n \in DOMAIN f.hunks : \A l \in ToSet(f.hunks[n].lines) :
                                   /\ l.kind # "+" => l.oldLine >= 1
                                   /\ l.kind # "-" => l.newLine >= 1
Create == /\ stage = "inspected" /\ files # {}
          /\ stage' = IF Valid THEN "review" ELSE "refused"
          /\ UNCHANGED <<diff, script, files>>

\* transitionChangeSet: only a ChangeSet in review is approved.
Approve == /\ stage = "review" /\ stage' = "approved" /\ UNCHANGED <<diff, script, files>>

ChangesNext == Inspect \/ Create \/ Approve

------------------------------------------------------------------------------
Visible == {c \in diff : Names(c) \cap OwnPaths = {}}

\* Every changed file is there once, under its name and with what became of it; of
\* an added one only that it is there (see AddedFilesAreAdded).
FilesAreTrue ==
    /\ {f.path : f \in files} = {c.path : c \in Visible}
    /\ \A f \in files, c \in Visible : f.path = c.path /\ c.kind # "A" => f.kind = c.kind /\ f.old = c.old

\* A line is the line of that number in the old and in the new file, and none is missing
\* but blank ones at the end.
Position(s, i, kind) == Cardinality({j \in 1..i : s[j].kind # kind})
LinesAreTrue ==
    \A f \in files, c \in Visible : f.path = c.path =>
      LET s == ScriptOf(c)
          lines == UNION {ToSet(f.hunks[n].lines) : n \in DOMAIN f.hunks}
      IN /\ \A l \in lines : \E i \in DOMAIN s :
              /\ s[i].kind = l.kind
              /\ l.kind # "+" => l.oldLine = Position(s, i, "+")
              /\ l.kind # "-" => l.newLine = Position(s, i, "-")
         /\ ~f.binary => {i \in DOMAIN s : s[i].kind # " "} =
                           {i \in DOMAIN s : \E l \in lines : /\ l.kind = s[i].kind /\ l.kind # " "
                                                              /\ l.oldLine = (IF l.kind = "+" THEN 0 ELSE Position(s, i, "+"))
                                                              /\ l.newLine = (IF l.kind = "-" THEN 0 ELSE Position(s, i, "-"))}

ChangesInv == stage # "committed" => stage # "refused" /\ FilesAreTrue /\ LinesAreTrue

\* test/git-workspace.test.ts:125 and docs/interface-capabilities.md:51: the real
\* changes are reviewed, an added file as an added one.
AddedFilesAreAdded ==
    stage = "review" => \A f \in files, c \in Visible : f.path = c.path => f.kind = c.kind
==============================================================================
