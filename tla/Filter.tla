------------------------------- MODULE Filter -------------------------------
(***************************************************************************)
(* The target filter of redline-core: a specification is read piece by     *)
(* piece into directives (TargetFilter::parse), the directives are ordered *)
(* by the length of their target (TargetFilter::new), and the first one    *)
(* that matches a callsite's target decides (enabled).                     *)
(*                                                                         *)
(* A target is a module path, a sequence of segment names.  The code only  *)
(* ever sees its text, in which "::" stands between the segments, so Text  *)
(* is modelled by what it does, over characters.  Splitting at commas and  *)
(* at the first equals sign, and trimming, are left out: the input is the  *)
(* sequence of pieces they yield.                                          *)
(***************************************************************************)
EXTENDS Naturals, Sequences, SequencesExt, Functions

CONSTANTS
  Letters,        \* characters of names
  Paths,          \* module paths: sequences of names, a name being a sequence of characters
  Bounds,         \* levels a directive may name, OFF included
  MaxPieces       \* bound of the model: pieces in a specification

OFF == 0
TRACE == 5
Levels == 1..TRACE        \* ERROR = 1 .. TRACE: a larger level is more verbose
NotALevel == TRACE + 1    \* text that no level parses from
InvalidLevel == "InvalidLevel"
EmptyTarget == "EmptyTarget"
NoPath == <<>>

ASSUME FilterAssumption ==
  /\ Bounds \subseteq {OFF} \union Levels
  /\ ":" \notin Letters
  /\ Paths \subseteq Seq(Seq(Letters)) \ {NoPath}
  /\ MaxPieces \in Nat

Rule == [kind : {"rule"}, target : Paths \union {NoPath}, level : Bounds \union {NotALevel}]
Bare == [kind : {"bare"}, level : Bounds \union {NotALevel}]
Blank == [kind : {"blank"}]
Pieces == Rule \union Bare \union Blank

VARIABLES
  pieces,         \* the specification, as split
  next,           \* the piece the loop of parse is at
  default_level,  \* {} for None, or the set of the level given last
  directives,     \* targets, as text, with their levels
  result,         \* "parsing", "ok" or the error returned
  filter          \* the TargetFilter, once there is one

vars == <<pieces, next, default_level, directives, result, filter>>

Separator == <<":", ":">>

(* A target as the code sees it. *)
Text(path) ==
  LET upto[n \in 1..Len(path)] ==
        IF n = 1 THEN path[1] ELSE upto[n - 1] \o Separator \o path[n]
  IN  upto[Len(path)]

Init ==
  /\ pieces \in UNION {[1..n -> Pieces] : n \in 0..MaxPieces}
  /\ next = 1
  /\ default_level = {}
  /\ directives = <<>>
  /\ result = "parsing"
  /\ filter = <<>>

-----------------------------------------------------------------------------
(* TargetFilter::new and TargetFilter::enabled                             *)

LongerFirst_Ascending(left, right) == Len(left.target) < Len(right.target)

LongerFirst(left, right) == Len(left.target) > Len(right.target)

Sorted_FirstOfTarget(ds) ==
  LET first == {i \in DOMAIN ds : \A j \in 1..(i - 1) : ds[j].target # ds[i].target}
      order == SetToSortSeq(first, LAMBDA i, j : LongerFirst(ds[i], ds[j]))
  IN  [i \in DOMAIN order |-> ds[order[i]]]

(* sort_by is stable: directives of equal length keep the order in which   *)
(* they were given.                                                        *)
Sorted(ds) ==
  LET Before(i, j) == \/ LongerFirst(ds[i], ds[j])
                      \/ ~LongerFirst(ds[j], ds[i]) /\ i < j
      order == CHOOSE p \in Bijection(DOMAIN ds, DOMAIN ds) :
                 \A i, j \in DOMAIN ds : i < j => Before(p[i], p[j])
  IN  [i \in DOMAIN ds |-> ds[order[i]]]

HighestLevel_First(default, ds) ==
  Max({default} \union {ds[i].level : i \in DOMAIN ds \intersect {1}})

HighestLevel(default, ds) == Max({default} \union {ds[i].level : i \in DOMAIN ds})

New(default, ds) ==
  [default_level |-> default, directives |-> Sorted(ds), max_level |-> HighestLevel(default, ds)]

TargetMatches(prefix, target) ==
  prefix = target \/ IsPrefix(prefix \o Separator, target)

(* OFF is below every level. *)
LevelAllowed(bound, level) == level <= bound

Enabled(f, target, level) ==
  LET hits == {i \in DOMAIN f.directives : TargetMatches(f.directives[i].target, target)}
  IN  LevelAllowed(IF hits = {} THEN f.default_level ELSE f.directives[Min(hits)].level, level)

-----------------------------------------------------------------------------
(* TargetFilter::parse                                                     *)

Piece == pieces[next]

Parsing(kind) ==
  /\ result = "parsing"
  /\ next \in DOMAIN pieces
  /\ Piece.kind = kind

Advance == next' = next + 1 /\ UNCHANGED <<pieces, result, filter>>

Fail(error) ==
  /\ result' = error
  /\ UNCHANGED <<pieces, next, default_level, directives, filter>>

SkipBlank == Parsing("blank") /\ Advance /\ UNCHANGED <<default_level, directives>>

BareLevel ==
  /\ Parsing("bare")
  /\ Piece.level # NotALevel
  /\ default_level' = {Piece.level}
  /\ Advance
  /\ UNCHANGED directives

Directive ==
  /\ Parsing("rule")
  /\ Piece.target # NoPath
  /\ Piece.level # NotALevel
  /\ directives' = Append(directives, [target |-> Text(Piece.target), level |-> Piece.level])
  /\ Advance
  /\ UNCHANGED default_level

RejectTarget == Parsing("rule") /\ Piece.target = NoPath /\ Fail(EmptyTarget)

RejectLevel_Ignored ==
  /\ Parsing("bare") \/ (Parsing("rule") /\ Piece.target # NoPath)
  /\ Piece.level = NotALevel
  /\ Advance
  /\ UNCHANGED <<default_level, directives>>

(* The target is looked at first, so that an empty one hides a bad level. *)
RejectLevel ==
  /\ Parsing("bare") \/ (Parsing("rule") /\ Piece.target # NoPath)
  /\ Piece.level = NotALevel
  /\ Fail(InvalidLevel)

Finish ==
  /\ result = "parsing"
  /\ next > Len(pieces)
  /\ filter' = New(IF default_level = {} THEN TRACE ELSE Max(default_level), directives)
  /\ result' = "ok"
  /\ UNCHANGED <<pieces, next, default_level, directives>>

Returned == result # "parsing" /\ UNCHANGED vars

Next ==
  \/ SkipBlank
  \/ BareLevel
  \/ Directive
  \/ RejectTarget
  \/ RejectLevel
  \/ Finish
  \/ Returned

Spec == Init /\ [][Next]_vars

-----------------------------------------------------------------------------
(* Properties                                                              *)

TypeOK ==
  /\ next \in 1..(Len(pieces) + 1)
  /\ default_level \in SUBSET Bounds
  /\ Len(directives) < next
  /\ \A i \in DOMAIN directives : directives[i].level \in Bounds
  /\ result \in {"parsing", "ok", InvalidLevel, EmptyTarget}
  /\ result = "ok" =>
       /\ Len(filter.directives) = Len(directives)
       /\ {filter.default_level, filter.max_level} \subseteq Bounds \union {TRACE}

(* What parse says of a specification: among the rules whose target is the *)
(* path or a parent of it the one with the most segments, the first of     *)
(* those that name the same target; else the last bare level; else TRACE.  *)
RuleFor(path) ==
  {i \in DOMAIN pieces : pieces[i].kind = "rule" /\ IsPrefix(pieces[i].target, path)}

BareLevels == {i \in DOMAIN pieces : pieces[i].kind = "bare"}

Documented(path) ==
  IF RuleFor(path) # {}
  THEN LET depth == Max({Len(pieces[i].target) : i \in RuleFor(path)})
       IN  pieces[Min({i \in RuleFor(path) : Len(pieces[i].target) = depth})].level
  ELSE IF BareLevels # {} THEN pieces[Max(BareLevels)].level ELSE TRACE

(* "target=level applies to that target and its :: children. The most      *)
(* specific matching target wins" (filter.rs:67): prefixes of text, sorted *)
(* by length of text, decide as module paths do.                           *)
MostSpecificWins ==
  result = "ok" =>
    \A path \in Paths, level \in Levels :
      Enabled(filter, Text(path), level) <=> level <= Documented(path)

(* tracing drops whatever lies above max_level_hint before the filter is   *)
(* asked (subscriber.rs:135): nothing the filter enables may lie above it. *)
HintLosesNothing ==
  result = "ok" =>
    \A path \in Paths, level \in Levels :
      Enabled(filter, Text(path), level) => level <= filter.max_level

(* A specification yields a filter exactly if every piece is well formed;  *)
(* else the error is that of the first piece that is not, whatever came    *)
(* before it, and no filter is built from the rest.                        *)
ErrorIn(piece) ==
  IF piece.kind = "rule" /\ piece.target = NoPath THEN EmptyTarget
  ELSE IF piece.kind # "blank" /\ piece.level = NotALevel THEN InvalidLevel
  ELSE "ok"

FirstErrorReported ==
  LET bad == {i \in DOMAIN pieces : ErrorIn(pieces[i]) # "ok"}
  IN  /\ result # "parsing" => result = (IF bad = {} THEN "ok" ELSE ErrorIn(pieces[Min(bad)]))
      /\ result # "ok" => filter = <<>>

=============================================================================
