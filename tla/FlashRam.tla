------------------------------ MODULE FlashRam ------------------------------
(* flash-ram.js: full and delta snapshots of the durable keys of an ASX RAM,  *)
(* chained by hashes, and the RAM rebuilt from a list of them.  The list read *)
(* back may have lost, repeated or exchanged snapshots, and one of them may   *)
(* have been given the content of another.  A hash is the thing hashed, which *)
(* leaves out the hash a snapshot was given.                                  *)
EXTENDS Naturals, Sequences, SequencesExt

CONSTANTS
    FlashKeys,         \* FLASH_ALLOWED_KEYS in use
    Values,
    Deleted,           \* a key that is not there
    NoHash,            \* the empty string
    MaxChanges,        \* bound on the changes of the RAM
    MaxFlashes         \* bound on the snapshots taken

States == [FlashKeys -> Values \union {Deleted}]

\* No hash is the empty string.
ASSUME FlashAssumption ==
    /\ MaxChanges \in Nat /\ MaxFlashes \in Nat
    /\ \A t \in 0 .. MaxChanges, s \in States : <<t, s>> # NoHash

VARIABLES
    ram,               \* the durable keys of the live RAM
    changes,           \* changes made, the RAM's tick
    flashes,           \* the snapshots in the order they were taken
    seen               \* history: the RAM at each snapshot

flashVars == <<ram, changes, flashes, seen>>

FlashInit ==
    /\ ram = [k \in FlashKeys |-> Deleted] /\ changes = 0
    /\ flashes = <<>> /\ seen = <<>>

Present(s) == {k \in FlashKeys : s[k] # Deleted}

\* What a snapshot's @proof adds to it: the hash of its content and the hash it
\* was given.
Flash(state, prev) ==
    [content |-> [tick |-> changes, state |-> state], hash |-> <<changes, state>>,
     prev |-> prev]

\* The live RAM changes a key, or deletes it.
Change(k) ==
    /\ changes < MaxChanges
    /\ \E v \in (Values \union {Deleted}) \ {ram[k]} : ram' = [ram EXCEPT ![k] = v]
    /\ changes' = changes + 1
    /\ UNCHANGED <<flashes, seen>>

Take(flash) ==
    /\ Len(flashes) < MaxFlashes
    /\ flashes' = Append(flashes, flash) /\ seen' = Append(seen, ram)
    /\ UNCHANGED <<ram, changes>>

\* createFlashSnapshot: a chain begins, or opts.prevHash continues one.
TakeFull ==
    \/ Take(Flash(ram, NoHash))
    \/ flashes # <<>> /\ Take(Flash(ram, Last(flashes).hash))

Old(flash, k) == flash.content.state[k]

\* mutant: keys that are there are compared with the first snapshot of all
ChangedM(flash) == {k \in FlashKeys : ram[k] # Old(flashes[1], k)}

\* The keys that differ from what that snapshot holds, be it a delta itself.
Changed(flash) == {k \in FlashKeys : ram[k] # Old(flash, k)}

\* createDeltaFlash throws on a changed key that is no more.
TakeDelta ==
    /\ flashes # <<>>
    /\ LET prev == Last(flashes)
           delta == [k \in FlashKeys |-> IF k \in Changed(prev) THEN ram[k] ELSE Deleted]
       IN  /\ Changed(prev) \subseteq Present(ram)
           /\ Take(Flash(delta, prev.hash))

FlashNext == (\E k \in FlashKeys : Change(k)) \/ TakeFull \/ TakeDelta

FlashSpec == FlashInit /\ [][FlashNext]_flashVars

-----------------------------------------------------------------------------
(* The way back: a list of snapshots, as read.                                *)

\* mutant: the hash a snapshot was given is not compared
LinkedM(list) == TRUE

\* verifyFlashChain's link test.
Linked(list) ==
    \A i \in 1 .. Len(list) :
        list[i].prev = IF i = 1 THEN NoHash ELSE list[i - 1].hash

\* mutant: only the context is looked at
IntactM(flash) == TRUE

\* verifyFlashSnapshot: the content is what was hashed.
Intact(flash) == flash.hash = <<flash.content.tick, flash.content.state>>

\* verifyFlashChain.
Verified(list) == Linked(list) /\ \A i \in 1 .. Len(list) : Intact(list[i])

\* rebuildRamFromFlash restores the keys a snapshot has and leaves the others.
Restorers(list, k) == {i \in 1 .. Len(list) : Old(list[i], k) # Deleted}

\* "LOAD FLASH, VERIFY HASH, REBUILD RAM, REPLAY DELTAS" over an empty
\* template: the last snapshot that has a key gives its value.
Resurrected(list) ==
    [k \in FlashKeys |-> IF Restorers(list, k) = {} THEN Deleted
                         ELSE Old(list[Max(Restorers(list, k))], k)]

-----------------------------------------------------------------------------
FlashTypeOK ==
    /\ ram \in States /\ changes \in 0 .. MaxChanges
    /\ Len(flashes) = Len(seen) /\ Len(flashes) <= MaxFlashes

\* The lists storage may give back: any choice of the snapshots, in any order,
\* with repetitions; an entry's proof belongs to one and its content to another,
\* which may be the same.
Ids == 1 .. Len(flashes)
ReadBack == UNION {[1 .. n -> Ids] : n \in Ids}
Entry(proof, content) == [flashes[proof] EXCEPT !.content = flashes[content].content]

\* "remembers enough truth to rebuild the world": every list that verifies,
\* whatever was lost, repeated or exchanged on the way, gives every key that was
\* there when its last snapshot was taken the value it had then.  A key deleted
\* before may come back.
Truth ==
    \A ids \in ReadBack : \A torn \in DOMAIN ids, other \in Ids :
        LET list == [i \in DOMAIN ids |->
                         Entry(ids[i], IF i = torn THEN other ELSE ids[i])]
            then == seen[ids[Len(ids)]]
        IN  Verified(list) => \A k \in Present(then) : Resurrected(list)[k] = then[k]

\* A chain of snapshots rebuilds the RAM, or does not verify.
FlashSafety == FlashTypeOK /\ Truth
=============================================================================
