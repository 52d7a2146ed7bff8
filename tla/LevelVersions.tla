---------------------------- MODULE LevelVersions -----------------------------
(***************************************************************************)
(* The files of a LevelDB database: leveldb/db/version_set.cc.  A version    *)
(* is the set of table files of every level; a table (of the function T    *)
(* from file numbers) is the set of its entries, and an entry a put or a   *)
(* deletion of a key under a sequence number.  Keys are ordered integers.  *)
(* A file's size is its number of entries.                                 *)
(***************************************************************************)
EXTENDS Integers, Sequences, FiniteSets, FiniteSetsExt

CONSTANTS
    Keys,
    kNumLevels, kL0_CompactionTrigger, kMaxMemCompactLevel,
    MaxBytesForLevel,                \* level -> entries
    MaxFileSizeForLevel,             \* entries of one compaction output
    kMaxGrandParentOverlapBytes, kExpandedCompactionByteSizeLimit

ASSUME LevelsAssumption == kNumLevels \in Nat

Levels == 0 .. kNumLevels - 1

NoFiles == [level \in Levels |-> {}]

(* The files of a version, on whatever level.                              *)
Files(v) == UNION {v[level] : level \in Levels}

Smallest(T, f) == Min({e.key : e \in T[f]})

Largest(T, f) == Max({e.key : e \in T[f]})

TotalFileSize(T, files) == MapThenSumSet(LAMBDA f : Cardinality(T[f]), files)

Overlaps(T, f, low, high) == Smallest(T, f) <= high /\ low <= Largest(T, f)

SomeFileOverlapsRange(T, files, low, high) == \E f \in files : Overlaps(T, f, low, high)

(* The newest entry of a key that the snapshot sees, and what it says of   *)
(* the key: the value (its sequence number), or 0 when it is deleted.      *)
Seen(ents, k, snapshot) == {e \in ents : e.key = k /\ e.seq <= snapshot}

SaveValue(ents, k, snapshot) ==
    LET e == CHOOSE e \in Seen(ents, k, snapshot) :
                 \A o \in Seen(ents, k, snapshot) : o.seq <= e.seq
    IN  IF e.del THEN 0 ELSE e.seq

(* The one file of a sorted level to look in: the first whose largest key  *)
(* is not before k, unless it begins after k.                              *)
FindFile(T, files, k) ==
    LET after == {f \in files : k <= Largest(T, f)}
    IN  {f \in after : /\ Smallest(T, f) <= k
                       /\ \A o \in after : Largest(T, f) <= Largest(T, o)}

(* Version::Get: level 0 from the newest file to the oldest, then one file *)
(* of each level; the first entry found decides.                           *)
VersionGet(T, v, k, snapshot) ==
    LET searched(level) == IF level = 0
                             THEN {f \in v[0] : Overlaps(T, f, k, k)}
                             ELSE FindFile(T, v[level], k)
        found(level) == {f \in searched(level) : Seen(T[f], k, snapshot) # {}}
        hits == {level \in Levels : found(level) # {}}
    IN  IF hits = {} THEN 0
        ELSE SaveValue(T[Max(found(Min(hits)))], k, snapshot)

(* The files a read may charge with a seek too many: it went on to another *)
(* file for the same key.                                                  *)
UpdateStats(T, v) ==
    {s \in Levels \X Files(v) :
        /\ s[2] \in v[s[1]]
        /\ \E k \in Keys : /\ Overlaps(T, s[2], k, k)
                           /\ \E l \in s[1] .. kNumLevels - 1 :
                                \E g \in v[l] \ {s[2]} : Overlaps(T, g, k, k)}

(* The files of a level that overlap a range.  In level 0, where files     *)
(* overlap each other, the range grows until it cuts no file.              *)
GrownRange(T, files, low, high) ==
    LET closed == {r \in Keys \X Keys :
                     /\ r[1] <= low /\ high <= r[2]
                     /\ \A f \in files : Overlaps(T, f, r[1], r[2]) =>
                                           r[1] <= Smallest(T, f) /\ Largest(T, f) <= r[2]}
    IN  CHOOSE r \in closed : \A q \in closed : q[1] <= r[1] /\ r[2] <= q[2]

GetOverlappingInputs(T, v, level, low, high) ==
    LET range == IF level = 0 THEN GrownRange(T, v[0], low, high) ELSE <<low, high>>
    IN  {f \in v[level] : Overlaps(T, f, range[1], range[2])}

(* The level a flushed memtable goes to: above the levels it overlaps.     *)
PickLevelForMemTableOutput(T, v, low, high) ==
    LET free(level) == ~SomeFileOverlapsRange(T, v[level], low, high)
        light(level) == level \in Levels =>
            TotalFileSize(T, GetOverlappingInputs(T, v, level, low, high))
                <= kMaxGrandParentOverlapBytes
    IN  Max({level \in 0 .. kMaxMemCompactLevel :
                \/ level = 0
                \/ \A l \in 0 .. level : free(l) /\ (l > 0 => light(l + 1))})

(* Builder::Apply and SaveTo: a version after an edit.                     *)
Apply(v, edit) ==
    [level \in Levels |->
        (v[level] \ {d[2] : d \in {d \in edit.deleted : d[1] = level}})
            \cup {a[2] : a \in {a \in edit.added : a[1] = level}}]

(* VersionSet::Finalize: the level most in need of compaction, as a set.   *)
(* (The scores are compared as products.)                                  *)
Score(T, v, level) ==
    IF level = 0 THEN <<Cardinality(v[0]), kL0_CompactionTrigger>>
    ELSE <<TotalFileSize(T, v[level]), MaxBytesForLevel[level]>>

Finalize(T, v) ==
    LET score(level) == Score(T, v, level)
        below(a, b) == score(a)[1] * score(b)[2] < score(b)[1] * score(a)[2]
    IN  {level \in 0 .. kNumLevels - 2 :
            \A l \in 0 .. kNumLevels - 2 :
                ~below(level, l) /\ (l < level => below(l, level))}

(* That level, if its score reaches one.                                   *)
SizeCompaction(T, v) ==
    {level \in Finalize(T, v) : Score(T, v, level)[1] >= Score(T, v, level)[2]}

GetRange(T, files) == <<Min({Smallest(T, f) : f \in files}), Max({Largest(T, f) : f \in files})>>

(* The inputs of a compaction of `files` of a level: with the files of the *)
(* next level that overlap them, and more of this level where that adds    *)
(* none of the next.                                                       *)
SetupOtherInputs(T, v, level, files) ==
    LET overlapping(l, range) == GetOverlappingInputs(T, v, l, range[1], range[2])
        inputs1 == overlapping(level + 1, GetRange(T, files))
        expanded0 == overlapping(level, GetRange(T, files \cup inputs1))
        expanded1 == overlapping(level + 1, GetRange(T, expanded0))
        expand == /\ inputs1 # {}
                  /\ Cardinality(expanded0) > Cardinality(files)
                  /\ TotalFileSize(T, inputs1) + TotalFileSize(T, expanded0)
                        < kExpandedCompactionByteSizeLimit
                  /\ Cardinality(expanded1) = Cardinality(inputs1)
        in0 == IF expand THEN expanded0 ELSE files
        in1 == IF expand THEN expanded1 ELSE inputs1
    IN  [level |-> level, in0 |-> in0, in1 |-> in1, input_version |-> v,
         grandparents |-> IF level + 2 \in Levels
                            THEN overlapping(level + 2, GetRange(T, in0 \cup in1))
                            ELSE {}]

(* The compactions PickCompaction may choose: of the level that is too     *)
(* full, from any of its files (where compact_pointer_ stands is left      *)
(* open), otherwise of the file a read has charged.                        *)
PickCompaction(T, v, file_to_compact) ==
    LET full == SizeCompaction(T, v)
        starts == IF full # {} THEN UNION {{level} \X v[level] : level \in full}
                  ELSE file_to_compact
        inputs(s) == IF s[1] = 0
                       THEN GetOverlappingInputs(T, v, 0, Smallest(T, s[2]), Largest(T, s[2]))
                       ELSE {s[2]}
    IN  {SetupOtherInputs(T, v, s[1], inputs(s)) : s \in starts}

NeedsCompaction(T, v, file_to_compact) ==
    SizeCompaction(T, v) # {} \/ file_to_compact # {}

IsTrivialMove(T, c) ==
    /\ Cardinality(c.in0) = 1 /\ c.in1 = {}
    /\ TotalFileSize(T, c.grandparents) <= kMaxGrandParentOverlapBytes

(* No level below the compaction's two has a file that could hold the key. *)
IsBaseLevelBelow(T, c, k) ==
    \A level \in c.level + 3 .. kNumLevels - 1 :
        \A f \in c.input_version[level] : ~Overlaps(T, f, k, k)

IsBaseLevelForKey(T, c, k) ==
    \A level \in c.level + 2 .. kNumLevels - 1 :
        \A f \in c.input_version[level] : ~Overlaps(T, f, k, k)

(* The entries DoCompactionWork keeps: not those hidden by a newer entry   *)
(* of their key that every reader sees, nor deletions with nothing below.  *)
Kept(T, c, smallest_snapshot) ==
    LET input == UNION {T[f] : f \in c.in0 \cup c.in1}
        hidden(e) == \E o \in input : /\ o.key = e.key /\ o.seq > e.seq
                                      /\ o.seq <= smallest_snapshot
    IN  {e \in input : /\ ~hidden(e)
                       /\ ~(/\ e.del /\ e.seq <= smallest_snapshot
                            /\ IsBaseLevelForKey(T, c, e.key))}

(* The ways to cut the kept entries into output files, in key order: a     *)
(* file is closed when it is full, and may be closed before (the overlap   *)
(* ShouldStopBefore counts against it is left open).                       *)
Outputs(ents) ==
    LET keys == {e.key : e \in ents}
        chunk(cuts, c) == {e \in ents : /\ c <= e.key
                                        /\ \A d \in cuts : d > c => e.key < d}
    IN  IF ents = {} THEN {<< >>}
        ELSE {MapThenFoldSet(LAMBDA file, files : Append(files, file), << >>,
                             LAMBDA c : chunk(cuts, c), Max, cuts) :
                cuts \in {cuts \in SUBSET keys :
                            /\ Min(keys) \in cuts
                            /\ \A c \in cuts : Cardinality(chunk(cuts, c)) <= MaxFileSizeForLevel}}
===============================================================================
