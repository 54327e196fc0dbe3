------------------------------- MODULE Listing -------------------------------
(***************************************************************************)
(* Listings that change while they are fetched page by page (github.go:    *)
(* pages, discussion, files; run.go: review).  An item that is removed     *)
(* moves the ones behind it to an earlier page, where nobody looks again.  *)
(*                                                                         *)
(* An attempt reads the discussion before the agents work and after, and   *)
(* goes on if both readings agree; it reads the changed files once, and    *)
(* goes on if they are those of the revision that was fetched.             *)
(***************************************************************************)
EXTENDS Naturals, Sequences, FiniteSets

CONSTANTS
  PerPage,   \* items of a full page (100 in the code)
  MaxPages,  \* pages that are fetched at most (10000)
  AtStart,   \* items of the listing at the start
  MaxEdits   \* bound: items that come or go

ASSUME ListingAssumption ==
  /\ {PerPage, MaxPages} \subseteq Nat \ {0}
  /\ {AtStart, MaxEdits} \subseteq Nat

VARIABLES
  remote,    \* the listing on GitHub; an item is the number of its creation
  created,   \* items created so far
  edits,
  kind,      \* what is listed: "discussion" or "files"
  reading,     \* "idle", "first", "work", "second", "accepted", "error"
  page,      \* the page to fetch next
  got,       \* the items fetched so far
  firstReading,   \* the first reading
  instant,   \* the items there were when the first reading ended
  changes    \* the files that the fetched revision changes

listingVars == <<remote, created, edits, kind, reading, page, got, firstReading, instant, changes>>

Items(s) == {s[i] : i \in DOMAIN s}

Distinct(s) == \A i, j \in DOMAIN s : s[i] = s[j] => i = j

ListingInit ==
  /\ remote = [i \in 1..AtStart |-> i] /\ created = AtStart /\ edits = 0
  /\ kind = "discussion" /\ reading = "idle" /\ page = 1 /\ got = <<>>
  /\ firstReading = <<>> /\ instant = {} /\ changes = {}

-----------------------------------------------------------------------------
\* People.

Edit == edits < MaxEdits /\ edits' = edits + 1

\* An item appears at place k of the listing.
Appear(k) ==
  /\ Edit /\ created' = created + 1
  /\ remote' = [i \in 1..(Len(remote) + 1) |->
       IF i < k THEN remote[i] ELSE IF i = k THEN created + 1 ELSE remote[i - 1]]
  /\ UNCHANGED <<kind, reading, page, got, firstReading, instant, changes>>

Vanish(k) ==
  /\ Edit
  /\ remote' = [i \in 1..(Len(remote) - 1) |-> IF i < k THEN remote[i] ELSE remote[i + 1]]
  /\ UNCHANGED <<created, kind, reading, page, got, firstReading, instant, changes>>

-----------------------------------------------------------------------------
\* An attempt.

BeginListing(k) ==
  /\ reading = "idle" /\ reading' = "first" /\ kind' = k
  /\ changes' = Items(remote)
  /\ UNCHANGED <<remote, created, edits, page, got, firstReading, instant>>

\* The agents are done, and the discussion is read again.
ReadAgain ==
  /\ reading = "work" /\ reading' = "second" /\ page' = 1 /\ got' = <<>>
  /\ UNCHANGED <<remote, created, edits, kind, firstReading, instant, changes>>

InReading == reading \in {"first", "second"}

Smaller(m, n) == IF m < n THEN m ELSE n

\* The items of the page at this time: none if the listing has become short.
PageItems == SubSeq(remote, (page - 1) * PerPage + 1, Smaller(page * PerPage, Len(remote)))

\* A full page may have a successor; too many pages are an error.
FullPage ==
  /\ InReading /\ Len(PageItems) = PerPage
  /\ got' = got \o PageItems /\ page' = page + 1
  /\ reading' = IF page < MaxPages THEN reading ELSE "error"
  /\ UNCHANGED <<remote, created, edits, kind, firstReading, instant, changes>>

Unstable(list) == ~Distinct(list)

\* Mutant: the second reading is not compared.
AgreesAnyway(list) == TRUE

\* discussionDigest: both readings, sorted, are the same.
Agrees(list) == Items(list) = Items(firstReading)

\* Mutant: the files are only counted.
MatchesCount(list) == Len(list) = Cardinality(changes)

\* As many files as changes, and every change among them.
Matches(list) == Len(list) = Cardinality(changes) /\ changes \subseteq Items(list)

\* A short page is the last one; an item that is there twice is an error.
LastPage ==
  LET list == got \o PageItems IN
  /\ InReading /\ Len(PageItems) < PerPage
  /\ got' = list
  /\ IF Unstable(list) THEN reading' = "error" /\ UNCHANGED <<firstReading, instant>>
     ELSE CASE kind = "files" ->
                 /\ reading' = IF Matches(list) THEN "accepted" ELSE "error"
                 /\ UNCHANGED <<firstReading, instant>>
            [] kind = "discussion" /\ reading = "first" ->
                 reading' = "work" /\ firstReading' = list /\ instant' = Items(remote)
            [] OTHER ->
                 /\ reading' = IF Agrees(list) THEN "accepted" ELSE "error"
                 /\ UNCHANGED <<firstReading, instant>>
  /\ UNCHANGED <<remote, created, edits, kind, page, changes>>

-----------------------------------------------------------------------------
ListingNext ==
  \/ \E k \in 1..(Len(remote) + 1) : Appear(k)
  \/ \E k \in DOMAIN remote : Vanish(k)
  \/ (\E k \in {"discussion", "files"} : BeginListing(k)) \/ ReadAgain \/ FullPage \/ LastPage

ListingSpec == ListingInit /\ [][ListingNext]_listingVars

-----------------------------------------------------------------------------
ListingTypeOK ==
  /\ remote \in Seq(1..created) /\ Distinct(remote) /\ created \in Nat /\ edits \in 0..MaxEdits
  /\ kind \in {"discussion", "files"}
  /\ reading \in {"idle", "first", "work", "second", "accepted", "error"}
  /\ page \in 1..(MaxPages + 1) /\ got \in Seq(1..created) /\ firstReading \in Seq(1..created)
  /\ instant \subseteq 1..created /\ changes \subseteq 1..created

\* A discussion that both readings agree about was complete: the first reading,
\* with which findings were compared, is what there was at the instant when it
\* ended, although its pages come from different times and a comment may have
\* moved between them (run.go: the digest of the discussion; README.md:
\* "Incomplete GitHub pagination ... stop that attempt").
HistoryIsComplete ==
  kind = "discussion" /\ reading = "accepted" => Items(firstReading) = instant

\* A review is based on the patches of all changed files and of no other:
\* neither a page that moved nor a push goes unnoticed (run.go: "GitHub
\* changed-file list is incomplete").
FilesAreComplete == kind = "files" /\ reading = "accepted" => Items(got) = changes
=============================================================================
