---------------------------- MODULE ObjectCache ----------------------------
(***************************************************************************)
(* ObjectCache over an InMemoryCache (transactions/ObjectCache.ts), as far *)
(* as object references go: a value cache with two maps from ids to        *)
(* versions, one for objects that have an owner and one for the others.    *)
(* Effects are a record of what a transaction wrote, with the owner each   *)
(* object has afterwards, and of the ids that exist no more.               *)
(***************************************************************************)
EXTENDS Naturals

\* The owner of an object: an address, nobody any more because the object is
\* frozen (or shared), or nothing since the object is deleted or wrapped.
Owners == {"signer", "other", "frozen", "gone"}
HasOwner(entry) == entry.owner \in {"signer", "other"}

Nothing == [x \in {} |-> 0]
Empty == [OwnedObject |-> Nothing, SharedOrImmutable |-> Nothing]

\* Map.set for every entry of f, and Map.delete for every id of S.
SetAll(map, f) ==
  [x \in DOMAIN map \union DOMAIN f |-> IF x \in DOMAIN f THEN f[x] ELSE map[x]]
DeleteAll(map, S) == [x \in DOMAIN map \ S |-> map[x]]

\* getObject: the entry with an owner goes first.
Cached(cache) == DOMAIN cache.OwnedObject \union DOMAIN cache.SharedOrImmutable
GetObject(cache, x) ==
  IF x \in DOMAIN cache.OwnedObject THEN cache.OwnedObject[x]
  ELSE cache.SharedOrImmutable[x]

DeleteObjects(cache, S) ==
  [OwnedObject |-> DeleteAll(cache.OwnedObject, S),
   SharedOrImmutable |-> DeleteAll(cache.SharedOrImmutable, S)]

\* addObjects: an entry goes into the map its owner says, and stays in the
\* other one if it is there.
Versions(written, S) == [x \in S |-> written[x].version]
AddObjects(cache, written) ==
  LET kept == { x \in DOMAIN written : HasOwner(written[x]) }
  IN  [OwnedObject |-> SetAll(cache.OwnedObject, Versions(written, kept)),
       SharedOrImmutable |->
         SetAll(cache.SharedOrImmutable, Versions(written, DOMAIN written \ kept))]

ApplyEffects(cache, effects) ==
  DeleteObjects(AddObjects(cache, effects.written), effects.removed)

ClearOwnedObjects(cache) == [cache EXCEPT !.OwnedObject = Nothing]
=============================================================================
