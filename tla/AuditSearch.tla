---------------------------- MODULE AuditSearch ----------------------------
(***************************************************************************)
(* Search of internal/auditlog/search.go and the "rampart audit" commands  *)
(* of cmd/rampart/audit_cmd.go.  A user reads the matches of a query page  *)
(* by page, a process per page, while the proxy appends to the log and     *)
(* rotates it.                                                             *)
(***************************************************************************)
EXTENDS Integers, Sequences, FiniteSets, FiniteSetsExt, SequencesExt, Selection

CONSTANTS
  Limit,     \* Entries per page.
  MaxEntries \* Bound: lines that are appended.

ASSUME LimitAssumption == Limit \in Nat \ {0} /\ MaxEntries \in Nat

(* What a line is to a query: an entry that matches it, one that does not, one
   that is no JSON, or one that is longer than the 1 MB a line may have. *)
LineKinds == {"match", "other", "malformed", "long"}
LogLine == [id : 1..MaxEntries, kind : LineKinds]

VARIABLES
  log,      \* The lines of audit.log, numbered over all files.
  appended, \* How many lines there have been.
  offset,   \* Where the next page begins.
  pages,    \* The entries the user got, page after page.
  search,   \* Where the search is.
  rotated,  \* The log was rotated after the first page.
  matches   \* The matches when the last page was read.

searchVars == <<log, appended, offset, pages, search, rotated, matches>>

SearchTypeOK ==
  /\ log \in Seq(LogLine)
  /\ appended \in 0..MaxEntries
  /\ offset \in 0..MaxEntries
  /\ pages \in Seq(1..MaxEntries)
  /\ search \in {"more", "end", "error"}
  /\ rotated \in BOOLEAN
  /\ matches \in 0..MaxEntries

SearchInit ==
  /\ log = <<>>
  /\ appended = 0
  /\ offset = 0
  /\ pages = <<>>
  /\ search = "more"
  /\ rotated = FALSE
  /\ matches = 0

-----------------------------------------------------------------------------
(* The log *)

AppendLine(kind) ==
  /\ appended < MaxEntries
  /\ log' = Append(log, [id |-> appended + 1, kind |-> kind])
  /\ appended' = appended + 1
  /\ UNCHANGED <<offset, pages, search, rotated, matches>>

RotateLog ==
  /\ log # <<>>
  /\ log' = <<>>
  /\ rotated' = (rotated \/ pages # <<>>)
  /\ UNCHANGED <<appended, offset, pages, search, matches>>

-----------------------------------------------------------------------------
(* Search *)

QueryMatches(lines) == Select(lines, {l \in LogLine : l.kind = "match"})

(* The lines before the first that has a kind of the set. *)
Before(lines, kinds) ==
  LET stops == {i \in DOMAIN lines : lines[i].kind \in kinds}
  IN SubSeq(lines, 1, IF stops = {} THEN Len(lines)
                      ELSE (CHOOSE i \in stops : \A j \in stops : i <= j) - 1)

(* One match more than the page has room for ends the scan, with HasMore; a line
   that is too long before that makes it fail. *)
Found(lines) == QueryMatches(Before(lines, {"long"}))
HasMore(lines, from) == Len(Found(lines)) > from + Limit
Fails(lines, from) == ~HasMore(lines, from) /\ Before(lines, {"long"}) # lines
Page(lines, from) ==
  LET found == Found(lines)
  IN SubSeq(found, from + 1, Min({from + Limit, Len(found)}))

(* The next page begins where outputTable says. *)
NextOffset(from) == from + Limit

(* Faulty variant: the match that ended the scan is counted as shown. *)
OffsetPastExtra(from) == from + Limit + 1

Advanced(from) == NextOffset(from)

RunSearch ==
  /\ search = "more"
  /\ ~Fails(log, offset)
  /\ pages' = pages \o [i \in DOMAIN Page(log, offset) |-> Page(log, offset)[i].id]
  /\ IF HasMore(log, offset)
     THEN offset' = Advanced(offset) /\ UNCHANGED search
     ELSE search' = "end" /\ UNCHANGED offset
  /\ matches' = Len(QueryMatches(log))
  /\ UNCHANGED <<log, appended, rotated>>

SearchFails ==
  /\ search = "more"
  /\ Fails(log, offset)
  /\ search' = "error"
  /\ UNCHANGED <<log, appended, offset, pages, rotated, matches>>

SearchNext ==
  \/ \E kind \in LineKinds : AppendLine(kind)
  \/ RotateLog \/ RunSearch \/ SearchFails

SearchSpec == SearchInit /\ [][SearchNext]_searchVars

-----------------------------------------------------------------------------
(* Properties *)

(* However the log grows between the pages, they hold its matches from the first
   on, each once and in their order, and at the end all that there were; only a
   rotation, which makes the offset count in another file, disturbs that. *)
PagesComplete ==
  ~rotated /\ search # "error" =>
    LET all == QueryMatches(log)
    IN /\ Len(pages) <= Len(all)
       /\ \A i \in DOMAIN pages : pages[i] = all[i].id
       /\ search = "end" => Len(pages) = matches
=============================================================================
