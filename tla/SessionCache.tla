---------------------------- MODULE SessionCache ----------------------------
(* SessionCache.cs with RegisterDesignAutoSave: the LRU list, the dictionary  *)
(* beside it and the eviction callback that saves design work to a file.      *)
(* Every operation holds the lock on _entries from its test to its end, the   *)
(* callback included, and is one step.  A value is the number of the Set that *)
(* stored it.  Bound: MaxSets operations.                                     *)
EXTENDS Naturals, Sequences, SequencesExt

CONSTANTS Keys, CacheLimit, MaxSets

\* Math.Max(1, limit)
ASSUME CacheAssumption == CacheLimit \in Nat \ {0} /\ MaxSets \in Nat

Design == "design"
Sources == {"none", Design, "Pop"}       \* "none": null is passed

VARIABLES
    entries,           \* _entries, most recently used first
    index,             \* keys of _index
    saved,             \* values in UI_DESIGN_REFERENCE.txt
    used,              \* history: when each key was last set, read or touched
    design,            \* history: values that were design work when last set
    calls              \* bound

cacheVars == <<entries, index, saved, used, design, calls>>

CacheInit ==
    /\ entries = <<>> /\ index = {} /\ saved = {}
    /\ used = [k \in Keys |-> 0] /\ design = {} /\ calls = 0

\* The node the dictionary has for a key.
Place(k) == CHOOSE i \in DOMAIN entries : entries[i].key = k
EntryOf(k) == entries[Place(k)]
Without(k) == RemoveAt(entries, Place(k))

Called(k) ==
    /\ calls < MaxSets /\ calls' = calls + 1
    /\ used' = [used EXCEPT ![k] = calls + 1]

-----------------------------------------------------------------------------
\* mutant: the node is found and left where it is
MovedM(k) == entries

Moved(k) == <<EntryOf(k)>> \o Without(k)

\* Get and Touch: a key that is there moves to the front.
Promote(k) ==
    /\ k \in index
    /\ Called(k)
    /\ entries' = Moved(k)
    /\ UNCHANGED <<index, saved, design>>

\* mutant: the source that is passed replaces the old one, null included
NewSourceM(old, source) == source

\* source ?? node.Value.Source
NewSource(old, source) == IF source = "none" THEN old ELSE source

\* The value of an entry whose source is replaced by another is no longer
\* design work.
Stays(source) == IF source = Design THEN {calls + 1} ELSE {}

\* Set of a key that is there.
Update(k, source) ==
    LET old == EntryOf(k)
    IN  /\ k \in index
        /\ Called(k)
        /\ entries' = <<[key |-> k, val |-> calls + 1, source |-> NewSource(old.source, source)]>>
                        \o Without(k)
        /\ design' = (design \ {old.val}) \union
                       (IF source = "none" /\ old.val \in design THEN {calls + 1} ELSE Stays(source))
        /\ UNCHANGED <<index, saved>>

\* mutant: the limit is tested after the insertion
FullM == Len(entries) > CacheLimit

Full == Len(entries) >= CacheLimit

\* OnEvicted: design work is appended to the file; the append may fail, which
\* is swallowed.
Evicted(e, fails) ==
    saved' = IF e.source = Design /\ ~fails THEN saved \union {e.val} ELSE saved

\* Set of a new key: the while loop evicts one at most, as the list never
\* exceeds the limit.
Insert(k, source, fails) ==
    LET entry == [key |-> k, val |-> calls + 1,
                  source |-> IF source = "none" THEN "Pop" ELSE source]
    IN  /\ k \notin index
        /\ Called(k)
        /\ IF Full
           THEN /\ entries' = <<entry>> \o Front(entries)
                /\ index' = (index \ {Last(entries).key}) \union {k}
                /\ Evicted(Last(entries), fails)
                /\ design' = (IF fails THEN design \ {Last(entries).val} ELSE design) \union Stays(source)
           ELSE /\ ~fails
                /\ entries' = <<entry>> \o entries
                /\ index' = index \union {k}
                /\ design' = design \union Stays(source)
                /\ UNCHANGED saved

\* mutant: the dictionary keeps the key
RemovedM(k) == index

Removed(k) == index \ {k}

\* Remove drops design work without saving it.
RemoveKey(k) ==
    /\ k \in index
    /\ Called(k)
    /\ entries' = Without(k)
    /\ index' = Removed(k)
    /\ design' = design \ {EntryOf(k).val}
    /\ UNCHANGED saved

\* So does Clear.
Clear ==
    /\ entries # <<>> /\ calls < MaxSets /\ calls' = calls + 1
    /\ entries' = <<>> /\ index' = {}
    /\ design' = design \ {entries[i].val : i \in DOMAIN entries}
    /\ UNCHANGED <<saved, used>>

CacheNext ==
    \/ \E k \in Keys : Promote(k) \/ RemoveKey(k)
    \/ \E k \in Keys, source \in Sources : Update(k, source)
    \/ \E k \in Keys, source \in Sources, fails \in BOOLEAN : Insert(k, source, fails)
    \/ Clear

CacheSpec == CacheInit /\ [][CacheNext]_cacheVars

-----------------------------------------------------------------------------
CacheTypeOK ==
    /\ \A i \in DOMAIN entries : entries[i].key \in Keys /\ entries[i].val \in 1 .. MaxSets
    /\ index \subseteq Keys /\ saved \subseteq 1 .. MaxSets /\ design \subseteq 1 .. MaxSets

\* List and dictionary hold the same keys, each once, within the limit.
IndexAgrees ==
    /\ Len(entries) <= CacheLimit
    /\ \A i, j \in DOMAIN entries : entries[i].key = entries[j].key => i = j
    /\ {entries[i].key : i \in DOMAIN entries} = index

\* "Evicts by LRU": the list is ordered by last use, so what Set evicts is the
\* key unused for the longest time.
LeastRecentLast ==
    \A i, j \in DOMAIN entries : i < j => used[entries[i].key] > used[entries[j].key]

\* "so design work survives cache cycling" (SessionCache.cs:208-210): what was
\* design work when last set, and neither updated, removed, cleared nor lost to
\* a failed append, is in the cache, as design work, or in the file.
DesignSurvives ==
    \A v \in design :
        v \in saved \/ \E i \in DOMAIN entries : entries[i].val = v /\ entries[i].source = Design

\* The cache is an LRU cache that loses no design work by eviction.
CacheSafety == CacheTypeOK /\ IndexAgrees /\ LeastRecentLast /\ DesignSurvives
=============================================================================
