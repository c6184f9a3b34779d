-------------------------------- MODULE Pages --------------------------------
(* The lists of the store that are read page by page: runs, preparation      *)
(* drafts and proposals (newest first), the messages of a preparation        *)
(* (newest first), events, actions, sources and messages by their sequence,  *)
(* task contracts and guided executions by id.  Each page is a query of its  *)
(* own for limit + 1 rows beyond a cursor, and the table goes on changing    *)
(* between two pages.                                                        *)
(* Documents read page by page: artifacts from their file                    *)
(* (FileArtifactStore.readPage under readArtifactPage) and the documents of a*)
(* preparation from their row (paginatePreparationDocument).  A page ends at *)
(* a limit of bytes or lines, never inside a character; its cursors are bound*)
(* to the version of the document.                                           *)
EXTENDS Integers, FiniteSets, Sequences, SequencesExt

------------------------------------------------------------------------------
(* Lists *)

CONSTANTS Ids,        \* ids and sequence numbers of rows, 1..n
          Limit,      \* rows of a page
          LastTick,   \* bound: ticks of the clock
          Kinds       \* lists read: "newest", "thread", "log", "catalog"

None == [id |-> 0, at |-> 0]

VARIABLES kind,      \* the list that is read
          rows,      \* the rows of the table: [id, at, in], in: matches the filter
          clock,     \* the time of created_at
          listed,    \* ids shown to the reader, in order
          cursor,    \* where the next page starts
          due,       \* ids that have matched ever since the reader began
          list       \* "closed" | "open" | "end"

listingVars == <<kind, rows, clock, listed, cursor, due, list>>

Matching == {r \in rows : r.in}
IdsOf(S) == {r.id : r \in S}

\* The ORDER BY of the lists.
NewestFirst(x, y) == x.at > y.at \/ (x.at = y.at /\ x.id > y.id)  \* runs, drafts, proposals
LastFirst(x, y) == x.id > y.id     \* messages of a preparation
BySequence(x, y) == x.id < y.id    \* events, documents, actions, messages of a guided task
ById(x, y) == x.id < y.id          \* contracts, executions

\* Whether x comes before y in the list.
Earlier(x, y) ==
    CASE kind = "newest" -> NewestFirst(x, y)
      [] kind = "thread" -> LastFirst(x, y)
      [] kind = "log" -> BySequence(x, y)
      [] kind = "catalog" -> ById(x, y)

\* Mutant: ties of created_at are not broken by the id.
Beyond_TimeOnly(r, c) == IF kind = "newest" THEN r.at < c.at ELSE Earlier(c, r)

\* The rows a cursor leaves: those its WHERE clause admits.
Beyond(r, c) == c = None \/ Earlier(c, r)

\* The rows of S in the order of the list: the nth comes after n - 1 others.
InOrder(S) == [n \in 1..Cardinality(S) |-> CHOOSE x \in S : Cardinality({y \in S : Earlier(y, x)}) = n - 1]

\* LIMIT limit + 1: the last one only tells that there is another page.
Fetched(c) == LET all == InOrder({r \in Matching : Beyond(r, c)})
              IN SubSeq(all, 1, IF Len(all) > Limit THEN Limit + 1 ELSE Len(all))
Shown(fetched) == SubSeq(fetched, 1, IF Len(fetched) > Limit THEN Limit ELSE Len(fetched))

\* The row the cursor of the next page is taken from; the messages of a
\* preparation take it from the row that was fetched to look ahead.
CursorRow(fetched) == IF kind = "thread" THEN Last(fetched) ELSE Last(Shown(fetched))

ListingInit == /\ kind \in Kinds /\ rows = {} /\ clock = 1
               /\ listed = <<>> /\ cursor = None /\ due = {} /\ list = "closed"

\* Sequences are given in order; ids of runs and contracts are random.
Insert == \E id \in Ids \ IdsOf(rows), in \in BOOLEAN :
            /\ kind \in {"log", "thread"} => \A r \in rows : r.id < id
            /\ rows' = rows \cup {[id |-> id, at |-> clock, in |-> in \/ kind # "newest"]}
            /\ UNCHANGED <<kind, clock, listed, cursor, due, list>>

Tick == clock < LastTick /\ clock' = clock + 1 /\ UNCHANGED <<kind, rows, listed, cursor, due, list>>

\* A run changes its status, so that a filter no longer finds it, or finds it now.
ChangeStatus == \E r \in rows :
                  /\ kind = "newest"
                  /\ rows' = (rows \ {r}) \cup {[r EXCEPT !.in = ~r.in]}
                  /\ due' = due \ {r.id}
                  /\ UNCHANGED <<kind, clock, listed, cursor, list>>

\* Compaction deletes the oldest message of a task's preparation.
Compact == \E r \in rows :
             /\ kind = "log" /\ \E x \in rows : x # r /\ \A y \in rows : r.id <= y.id
             /\ rows' = rows \ {r} /\ due' = due \ {r.id}
             /\ UNCHANGED <<kind, clock, listed, cursor, list>>

ReadPage == /\ list # "end"
            /\ LET fetched == Fetched(cursor) IN
                 /\ listed' = listed \o [i \in DOMAIN Shown(fetched) |-> Shown(fetched)[i].id]
                 /\ IF Len(fetched) > Limit
                    THEN list' = "open" /\ cursor' = [id |-> CursorRow(fetched).id, at |-> CursorRow(fetched).at]
                    ELSE list' = "end" /\ cursor' = None
                 /\ due' = IF list = "closed" THEN IdsOf(Matching) ELSE due
            /\ UNCHANGED <<kind, rows, clock>>

ListingNext == Insert \/ Tick \/ ChangeStatus \/ Compact \/ ReadPage

(* A reader who follows the cursors to the end has been shown every row that *)
(* belonged to the list all the while, and none twice, whatever was inserted,*)
(* changed or deleted between two pages.  (The messages of a preparation skip *)
(* the row that was fetched to look ahead.)                                  *)
NothingMissed == list = "end" /\ kind # "thread" => due \subseteq Range(listed)
NothingTwice == \A i, j \in DOMAIN listed : listed[i] = listed[j] => i = j

ListingInv == NothingMissed /\ NothingTwice

------------------------------------------------------------------------------
(* Documents *)

CONSTANTS MaxBytes,   \* bytes of a page (65 536 by default)
          MaxLines,   \* lines of a page (200 by default)
          MaxChars,   \* bound: characters of a document
          Writes      \* bound: times the document changes

\* A byte is a newline, the head of a character of that many bytes, or a continuation.
Chars == {"newline", "ascii", "two", "three"}
BytesOf(c) == CASE c = "two" -> <<"two", "more">> [] c = "three" -> <<"three", "more", "more">> [] OTHER -> <<c>>
Width(b) == CASE b = "two" -> 2 [] b = "three" -> 3 [] OTHER -> 0
Documents == {FlattenSeq([i \in DOMAIN d |-> BytesOf(d[i])]) : d \in UNION {[1..n -> Chars] : n \in 0..MaxChars}}

VARIABLES from,      \* "artifact" | "preparation"
          document,  \* its bytes
          version,   \* size and mtime of the file, or content_version of the row
          page,      \* the page on screen: [from, to, version, bytes]
          reading,   \* "closed" | "forward" | "back": how the reader got there
          read,      \* the bytes shown since the first page, going forward
          failed     \* the last page could not be read

documentVars == <<from, document, version, page, reading, read, failed>>

NoPage == [from |-> 0, to |-> 0, version |-> 0, bytes |-> <<>>]
Least(a, b) == IF a < b THEN a ELSE b
Slice(a, b) == SubSeq(document, a + 1, b)
Boundary(p) == p \in {0, Len(document)} \/ document[p + 1] # "more"

\* How many bytes of a last, unfinished character the slice ends with.
TrailingIncomplete(bytes) ==
  LET n == Len(bytes)
      heads == {i \in 1..n : i > n - 3 /\ Width(bytes[i]) > 0}
  IN IF heads = {} THEN 0
     ELSE LET head == CHOOSE i \in heads : \A j \in heads : j <= i
          IN IF n - head + 1 >= Width(bytes[head]) \/ \E j \in head + 1..n : bytes[j] # "more"
             THEN 0 ELSE n - head + 1

\* Mutant: the limit of bytes may cut a character.
ByteEnd_Cut(start) == Least(start + MaxBytes, Len(document))

\* Where the bytes of a page end: a character that does not fit is left to the next.
ByteEnd(start) ==
  LET end == Least(start + MaxBytes, Len(document))
  IN IF from = "artifact" THEN end - TrailingIncomplete(Slice(start, end))
     ELSE CHOOSE e \in start..end : /\ e = start \/ Boundary(e)
                                    /\ \A x \in e + 1..end : ~Boundary(x)

\* The page ends behind its last line when it has more than MaxLines; the
\* offset of the cursor is computed again from the text of what is left, in
\* which half a character counts as a replacement character of three bytes.
Cut(start) ==
  LET lines == {i \in start + 1..ByteEnd(start) : document[i] = "newline"}
      last == CHOOSE i \in lines : Cardinality({j \in lines : j <= i}) = MaxLines
      halves == {i \in start + 1..last : i <= start + 2 /\ \A j \in start + 1..i : document[j] = "more"}
  IN IF Cardinality(lines) <= MaxLines THEN [shown |-> ByteEnd(start), to |-> ByteEnd(start)]
     ELSE [shown |-> last, to |-> last + 2 * Cardinality(halves)]

PageAt(start) == [from |-> start, to |-> Cut(start).to, version |-> version,
                  bytes |-> Slice(start, Cut(start).shown)]

\* The decoder of artifacts refuses a page that starts inside a character.
Readable(p) == from = "artifact" => p.from = p.to \/ Boundary(p.from)
HasNext == page.to < Len(document)
Current == page.version = version    \* the cursor was made for this version

DocumentInit == /\ from \in {"artifact", "preparation"} /\ document \in Documents /\ version = 1
                /\ page = NoPage /\ reading = "closed" /\ read = <<>> /\ failed = FALSE

Open == /\ page' = PageAt(0) /\ reading' = "forward" /\ read' = PageAt(0).bytes /\ failed' = FALSE
        /\ UNCHANGED <<from, document, version>>

\* A cursor of another version is refused, and so is a page that does not decode.
Turn(start, how) ==
  /\ IF Current /\ Readable(PageAt(start))
     THEN page' = PageAt(start) /\ failed' = FALSE /\ reading' = how
          /\ read' = IF how = "forward" THEN read \o PageAt(start).bytes ELSE <<>>
     ELSE failed' = TRUE /\ UNCHANGED <<page, reading, read>>
  /\ UNCHANGED <<from, document, version>>

NextPage == /\ reading # "closed" /\ (Current => HasNext)
            /\ Turn(Least(page.to, Len(document)), reading)

\* A page has no memory of the one before it: it goes back by MaxBytes.
PreviousPage == /\ reading # "closed" /\ page.from > 0
                /\ Turn(IF page.from > MaxBytes THEN page.from - MaxBytes ELSE 0, "back")

\* The text of a message of the agent is completed, or somebody changes the file.
Write == /\ version <= Writes /\ version' = version + 1
         /\ document' \in {Append(document, "ascii"), <<"two", "more">>}
         /\ UNCHANGED <<from, page, reading, read, failed>>

DocumentNext == Open \/ NextPage \/ PreviousPage \/ Write

(* Going forward, the pages shown so far are together what the document holds*)
(* up to the end of the last one, with whole characters only; a page that    *)
(* promises another one shows something; and nothing is lost at the end.     *)
PagesJoin == (reading = "forward" /\ Current) => read = Slice(0, page.to) /\ Boundary(page.to)
PagesProgress == (reading = "forward" /\ Current /\ HasNext) => page.to > page.from

DocumentInv == PagesJoin /\ PagesProgress

(* readBounded, the preview that is formatted as JSON unless it is truncated:*)
(* it is the beginning of the document, in whole characters, and what is not *)
(* called truncated is all of it.                                            *)
Preview(max) == LET n == Least(Len(document), max)
                    cut == TrailingIncomplete(Slice(0, n))
                IN [to |-> n - cut, truncated |-> Len(document) > max \/ cut > 0]
PreviewIsTrue == \A max \in 1..3 * MaxChars :
                   /\ Boundary(Preview(max).to)
                   /\ Preview(max).truncated <=> Preview(max).to < Len(document)
=============================================================================
