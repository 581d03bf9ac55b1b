--------------------------- MODULE LocalOrderBook ---------------------------
(***************************************************************************)
(* LocalOrderBook (market_data/l2_book.py) as operators on a book.         *)
(* The venue's book passes through versions 1, 2, 3, ...; a snapshot holds *)
(* one version, a delta the levels changed by the versions first..last.    *)
(* Instead of levels a book has an image: the version its levels are, or   *)
(* Wrong when they are no version's.  Levels carry absolute quantities, so *)
(* a delta takes every image in first-1..last to last, and no other.       *)
(***************************************************************************)
EXTENDS Integers

Quality == {"VALID", "STALE", "GAP", "CROSSED", "INVALID", "RECOVERING", "UNAVAILABLE"}

None  == 0    \* no sequence, no timestamp
Wrong == -1   \* the levels of no version

NewBook == [sequence |-> None, time |-> None, quality |-> "RECOVERING", image |-> Wrong,
            seen |-> {}]

(* A call returns the book it leaves and the status and quality it reports. *)
Outcome(book, status, quality) == [book |-> book, status |-> status, quality |-> quality]

Gap(book) == Outcome([book EXCEPT !.quality = "GAP"], "GAP", "GAP")

(* _refresh_quality: levels that are a version's have that version's        *)
(* quality; of others nothing is known, and VALID is the dangerous answer.  *)
Refreshed(image, shape) == IF image = Wrong THEN "VALID" ELSE shape[image]

(* apply_snapshot; checksums are not used by any selected feed.             *)
ApplySnapshot(book, s, shape) ==
  IF s.time < book.time THEN Outcome(book, "REJECTED", "INVALID")
  ELSE IF s.last = book.sequence /\ s.time = book.time
       THEN IF book.image = s.last THEN Outcome(book, "DUPLICATE", book.quality) ELSE Gap(book)
  ELSE Outcome([sequence |-> s.last, time |-> s.time, image |-> s.last, seen |-> {},
                quality |-> Refreshed(s.last, shape)], "APPLIED", Refreshed(s.last, shape))

(* Plausible bug: any delta that reaches past the book is taken. *)
ContiguousLoosely(book, d) == d.last > book.sequence

(* _is_contiguous *)
Contiguous(book, d) ==
  IF d.prev # None THEN d.prev = book.sequence
  ELSE d.first <= book.sequence + 1 /\ book.sequence + 1 <= d.last

Patched(image, d) == IF image \in d.first - 1 .. d.last THEN d.last ELSE Wrong

(* apply_delta *)
ApplyDelta(book, d, shape) ==
  IF book.sequence = None \/ book.quality \in {"GAP", "INVALID", "RECOVERING", "UNAVAILABLE"}
  THEN Gap(book)
  ELSE IF d \in book.seen THEN Outcome(book, "DUPLICATE", book.quality)
  ELSE IF d.last <= book.sequence /\ ~(d.prev = book.sequence /\ d.last < book.sequence)
       THEN IF \E e \in book.seen : e.last = d.last THEN Gap(book)
            ELSE Outcome(book, "DUPLICATE", book.quality)
  ELSE IF d.time < book.time THEN Outcome(book, "REJECTED", "INVALID")
  ELSE IF ~Contiguous(book, d) THEN Gap(book)
  ELSE LET image   == Patched(book.image, d)
           quality == Refreshed(image, shape)
       IN  Outcome([sequence |-> d.last, time |-> d.time, image |-> image,
                    seen |-> book.seen \cup {d}, quality |-> quality], "APPLIED", quality)

(* What the two calls have in common for their callers. *)
Apply(book, e, shape) ==
  IF e.kind = "snapshot" THEN ApplySnapshot(book, e, shape) ELSE ApplyDelta(book, e, shape)
=============================================================================
