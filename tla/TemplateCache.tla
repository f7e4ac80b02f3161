---------------------------- MODULE TemplateCache ----------------------------
(***************************************************************************)
(* The cache of decoded templates (crates/forge-core/src/cv.rs): every     *)
(* script of every device, and so every worker thread, loads its templates *)
(* through it.  A load looks at the file's length and time of change, its  *)
(* stamp, then at the cache under its lock, and decodes the file outside   *)
(* of it; meanwhile the file may be overwritten, by a rename, and other    *)
(* loads of it may come and go.                                            *)
(*                                                                         *)
(* The pyramids in colour are modelled, whose keys are a file and whether  *)
(* several scales are wanted; the gray images have a cache of the same     *)
(* code, with one mode.  The contents of a file are its version; that two  *)
(* versions never have the same stamp is an assumption of the code.        *)
(***************************************************************************)
EXTENDS Naturals, Sequences, SequencesExt, FiniteSets, FiniteSetsExt, TLC

CONSTANTS Files,
          Modes,        \* the representations of a file that are cached
          Loaders,      \* threads
          Versions,     \* bound: of each file, 1 to some number
          Size,         \* bytes of a decoded version, for each mode
          Budget,       \* MAX_CACHE_BYTES
          None

Keys == Files \X Modes

ASSUME CacheAssumption ==
    /\ Versions \subseteq Nat \ {0} /\ Budget \in Nat
    /\ Size \in [Modes \X Versions -> Nat]
    /\ None \notin Keys

VARIABLES
    version,    \* what each file has; 0 when there is none
    cache,      \* images with their stamps, order and bytes, under one lock
    loader      \* each thread: where it is in a load, and what it has in hand

vars == <<version, cache, loader>>

\* began is a history: the version the file had when the load began.
Idle == [pc |-> "idle", key |-> None, stamp |-> 0, image |-> 0, began |-> 0]

Init ==
    /\ version \in [Files -> {0, 1}]
    /\ cache = [images |-> <<>>, order |-> <<>>, bytes |-> 0]
    /\ loader = [l \in Loaders |-> Idle]

-----------------------------------------------------------------------------
(* The cache: lookup and insert.                                           *)

SizeOf(c, key) == Size[key[2], c.images[key].image]

\* saturating_sub
Less(n, m) == IF m > n THEN 0 ELSE n - m

\* The cache without some keys.
Without(c, keys) ==
    LET gone == keys \cap DOMAIN c.images
    IN  [images |-> [k \in DOMAIN c.images \ gone |-> c.images[k]],
         order |-> SelectSeq(c.order, LAMBDA k : k \notin keys),
         bytes |-> Less(c.bytes, MapThenSumSet(LAMBDA k : SizeOf(c, k), gone))]

\* The keys that were not used for longest go until the size fits.
Evict(c, size) ==
    LET after(n) == Without(c, Range(SubSeq(c.order, 1, n)))
        n == Min({i \in 0..Len(c.order) :
                     after(i).bytes + size <= Budget \/ i = Len(c.order)})
    IN  after(n)

\* Mutant: what the cache has of the file is used, whatever its stamp.
HitAnyStamp(key, stamp) == key \in DOMAIN cache.images

Hit(key, stamp) == key \in DOMAIN cache.images /\ cache.images[key].stamp = stamp

Touched(c, key) == [c EXCEPT !.order = Append(RemoveFirst(@, key), key)]

\* Mutant: the older image is overwritten, its bytes stay counted.
InsertedBeside(c, key, stamp, image) ==
    LET size == Size[key[2], image]
        room == Evict(c, size)
    IN  IF size > Budget THEN c
        ELSE [images |-> (key :> [stamp |-> stamp, image |-> image]) @@ room.images,
              order |-> Append(room.order, key),
              bytes |-> room.bytes + size]

\* The older image of the key goes first; one that is larger than the whole cache
\* is not kept.
Inserted(c, key, stamp, image) ==
    LET size == Size[key[2], image]
        room == Evict(Without(c, {key}), size)
    IN  IF size > Budget THEN Without(c, {key})
        ELSE [images |-> (key :> [stamp |-> stamp, image |-> image]) @@ room.images,
              order |-> Append(room.order, key),
              bytes |-> room.bytes + size]

-----------------------------------------------------------------------------
(* load_rgb_pyramid, load_gray_template                                    *)

Begin(l, key) ==
    /\ loader[l].pc \in {"idle", "done"}
    /\ loader' = [loader EXCEPT ![l] = [Idle EXCEPT !.pc = "stat", !.key = key,
                                                    !.began = version[key[1]]]]
    /\ UNCHANGED <<version, cache>>

\* template_stamp
Stat(l) ==
    /\ loader[l].pc = "stat"
    /\ version[loader[l].key[1]] # 0
    /\ loader' = [loader EXCEPT ![l].pc = "lookup",
                                ![l].stamp = version[loader[l].key[1]]]
    /\ UNCHANGED <<version, cache>>

\* The file is not there, or too large, or no image.
Fail(l) ==
    /\ \/ loader[l].pc = "stat" /\ version[loader[l].key[1]] = 0
       \/ loader[l].pc = "decode"
    /\ loader' = [loader EXCEPT ![l] = Idle]
    /\ UNCHANGED <<version, cache>>

\* The cache is looked up before the file is decoded, and again after it.
Found(l) ==
    LET key == loader[l].key
    IN  /\ loader[l].pc \in {"lookup", "insert"}
        /\ Hit(key, loader[l].stamp)
        /\ cache' = Touched(cache, key)
        /\ loader' = [loader EXCEPT ![l].pc = "done", ![l].image = cache.images[key].image]
        /\ UNCHANGED version

Missed(l) ==
    /\ loader[l].pc = "lookup"
    /\ ~Hit(loader[l].key, loader[l].stamp)
    /\ loader' = [loader EXCEPT ![l].pc = "decode"]
    /\ UNCHANGED <<version, cache>>

\* load_template_image, without the lock: the file may have changed since its stamp
\* was taken.
Decode(l) ==
    /\ loader[l].pc = "decode"
    /\ loader' = [loader EXCEPT ![l].pc = "insert",
                                ![l].image = version[loader[l].key[1]]]
    /\ UNCHANGED <<version, cache>>

Insert(l) ==
    LET it == loader[l]
    IN  /\ it.pc = "insert"
        /\ ~Hit(it.key, it.stamp)
        /\ cache' = Inserted(cache, it.key, it.stamp, it.image)
        /\ loader' = [loader EXCEPT ![l].pc = "done"]
        /\ UNCHANGED version

-----------------------------------------------------------------------------
\* A template is saved, or saved over, by a rename; a reader has the one or the other.
Save(f) ==
    /\ version[f] + 1 \in Versions
    /\ version' = [version EXCEPT ![f] = @ + 1]
    /\ UNCHANGED <<cache, loader>>

Load(l) ==
    \/ \E key \in Keys : Begin(l, key)
    \/ Stat(l) \/ Fail(l) \/ Found(l) \/ Missed(l) \/ Decode(l) \/ Insert(l)

Next == (\E l \in Loaders : Load(l)) \/ (\E f \in Files : Save(f))

Spec == Init /\ [][Next]_vars

-----------------------------------------------------------------------------
(* Properties.                                                             *)

\* The cache is what its counters say, however loads of the same and of different
\* versions overlap: the order of use has every key once, the bytes are those of
\* the images, and never more than the budget (cv.rs:12-15).
CacheIsExact ==
    LET keys == DOMAIN cache.images
    IN  /\ keys \subseteq Keys
        /\ \A k \in keys : cache.images[k] \in [stamp : Versions, image : Versions]
        /\ Range(cache.order) = keys /\ Len(cache.order) = Cardinality(keys)
        /\ cache.bytes = MapThenSumSet(LAMBDA k : SizeOf(cache, k), keys)
        /\ cache.bytes <= Budget

\* ARCHITECTURE.md:70-71: native template caches are invalidated when a template
\* file is overwritten.  A load never gives an older image than the file had when
\* it began, although a slow load may put an old image over a newer one.
NeverStale ==
    \A l \in Loaders : loader[l].pc = "done" => loader[l].image >= loader[l].began
=============================================================================
