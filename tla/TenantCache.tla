---------------------------- MODULE TenantCache ----------------------------
(***************************************************************************)
(* platform/tenant-context: TenantScopedCache over InMemoryKeyValueStore.  *)
(* The store is a Map in insertion order, so its first entry is the least  *)
(* recently used one; expired entries stay until they are read or evicted. *)
(* No operation awaits anything, so each is one step.                      *)
(***************************************************************************)
EXTENDS Naturals, Sequences, FiniteSets, SequencesExt

CONSTANTS Characters,   \* what segments are made of
          Addresses,    \* [tenant, namespace, parts] some caller uses
          MaxEntries,
          MaxSegment,   \* the longest segment (256)
          DefaultTtl,   \* defaultTtlSeconds, or NoTtl
          NoTtl,        \* no time to live
          Ttls,         \* bound: the ttlSeconds callers give
          CacheValues,  \* what is cached
          Uncloneable,  \* a value structuredClone refuses
          LatestTime    \* bound: when the clock stops

Segment == Seq(Characters)
Address == [tenant : Segment, namespace : Segment, parts : Seq(Segment)]

(* "%3A" is the escape of a character, not a character. *)
ASSUME AddressesAssumption == Addresses \subseteq Address /\ "%3A" \notin Characters
ASSUME LimitAssumption == MaxEntries \in Nat \ {0}
ASSUME TtlAssumption == Ttls \subseteq Nat /\ DefaultTtl \in Nat \cup {NoTtl} /\ NoTtl \notin Nat

VARIABLES entries,   \* the Map: [key, value, expires], in insertion order
          now,       \* the clock
          written,   \* reference: what was last set at each address
          used       \* reference: the addresses set or hit, the latest last

cacheVars == <<entries, now, written, used>>

Nothing == [value |-> Uncloneable, expires |-> NoTtl]

CacheInit ==
  /\ entries = <<>>
  /\ now = 0
  /\ written = [a \in Addresses |-> Nothing]
  /\ used = <<>>

-----------------------------------------------------------------------------
(* Keys *)

(* A segment is a sequence of characters; encodeURIComponent escapes ":". *)
EncodeSegment(segment) ==
  [i \in DOMAIN segment |-> IF segment[i] = ":" THEN "%3A" ELSE segment[i]]

IsSegment(segment) == Len(segment) \in 1 .. MaxSegment

IsAddress(address) ==
  /\ IsSegment(address.tenant)
  /\ \A i \in DOMAIN address.namespace : address.namespace[i] # ":"
  /\ address.parts # <<>>
  /\ \A i \in DOMAIN address.parts : IsSegment(address.parts[i])

(* The segments joined with ":", up to each of the parts. *)
Joined(address) ==
  LET joined[n \in 0 .. Len(address.parts)] ==
        IF n = 0 THEN EncodeSegment(address.tenant) \o <<":">> \o address.namespace
        ELSE joined[n - 1] \o <<":">> \o EncodeSegment(address.parts[n])
  IN  joined

TenantScopedKey(address) == Joined(address)[Len(address.parts)]

-----------------------------------------------------------------------------
(* The Map *)

IndicesOf(key) == {i \in DOMAIN entries : entries[i].key = key}
IsExpired(entry) == entry.expires # NoTtl /\ entry.expires <= now

(* The entries without the one at a key. *)
Without(key) ==
  IF IndicesOf(key) = {} THEN entries
  ELSE RemoveAt(entries, CHOOSE i \in IndicesOf(key) : TRUE)

(* What get would find. *)
Hits(key) == {e \in {entries[i] : i \in IndicesOf(key)} : ~IsExpired(e)}

Evict(map) == SubSeq(map, IF Len(map) > MaxEntries THEN Len(map) - MaxEntries + 1 ELSE 1, Len(map))

Use(a) ==
  LET earlier == {i \in DOMAIN used : used[i] = a}
  IN  used' = Append(IF earlier = {} THEN used ELSE RemoveAt(used, CHOOSE i \in earlier : TRUE), a)

(* Mutation: a hit stays where it is. *)
GetInPlace(a) ==
  LET key == TenantScopedKey(a)
  IN  /\ IsAddress(a)
      /\ \/ Hits(key) = {} /\ entries' = Without(key) /\ UNCHANGED used
         \/ Hits(key) # {} /\ UNCHANGED entries /\ Use(a)
      /\ UNCHANGED <<now, written>>

(* get: an expired entry goes, a hit becomes the most recently used. *)
Get(a) ==
  LET key == TenantScopedKey(a)
  IN  /\ IsAddress(a)
      /\ \/ Hits(key) = {} /\ entries' = Without(key) /\ UNCHANGED used
         \/ \E hit \in Hits(key) : entries' = Append(Without(key), hit) /\ Use(a)
      /\ UNCHANGED <<now, written>>

ExpiresAt(ttl) == IF ttl = NoTtl THEN NoTtl ELSE now + ttl

(* set: a time to live that is not positive changes nothing; a value that   *)
(* cannot be cloned is refused after the old entry is gone.                 *)
Set(a, value, ttlSeconds) ==
  LET key == TenantScopedKey(a)
      ttl == IF ttlSeconds = NoTtl THEN DefaultTtl ELSE ttlSeconds
      entry == [value |-> value, expires |-> ExpiresAt(ttl)]
  IN  /\ IsAddress(a)
      /\ ttl # 0
      /\ IF value = Uncloneable
         THEN /\ entries' = Without(key)
              /\ written' = [written EXCEPT ![a] = Nothing]
              /\ UNCHANGED used
         ELSE /\ entries' = Evict(Append(Without(key),
                              [key |-> key, value |-> value, expires |-> ExpiresAt(ttl)]))
              /\ written' = [written EXCEPT ![a] = entry]
              /\ Use(a)
      /\ UNCHANGED now

Delete(a) ==
  /\ IsAddress(a)
  /\ entries' = Without(TenantScopedKey(a))
  /\ written' = [written EXCEPT ![a] = Nothing]
  /\ UNCHANGED <<now, used>>

Tick ==
  /\ now < LatestTime
  /\ now' = now + 1
  /\ UNCHANGED <<entries, written, used>>

-----------------------------------------------------------------------------

CacheNext ==
  \/ \E a \in Addresses :
       \/ Get(a)
       \/ \E value \in CacheValues \cup {Uncloneable}, ttl \in Ttls \cup {NoTtl} : Set(a, value, ttl)
       \/ Delete(a)
  \/ Tick

CacheSpec == CacheInit /\ [][CacheNext]_cacheVars

-----------------------------------------------------------------------------
(* Safety *)

UsedSince(a) ==
  {b \in Addresses \ {a} :
     \E i, j \in DOMAIN used : used[i] = a /\ used[j] = b /\ i < j}

(* The cache answers as its reference says, whatever mix of tenants, keys,  *)
(* expiry and eviction came before: a hit is the value last set at that     *)
(* very address of that very tenant, within its time to live; an address    *)
(* with a live value misses only when MaxEntries others were used since.    *)
CacheTellsTheTruth ==
  /\ Len(entries) <= MaxEntries
  /\ \A a \in {b \in Addresses : IsAddress(b)} :
       LET hits == Hits(TenantScopedKey(a))
       IN  /\ \A hit \in hits : [value |-> hit.value, expires |-> hit.expires] = written[a]
           /\ hits = {} =>
                \/ written[a] = Nothing
                \/ IsExpired(written[a])
                \/ Cardinality(UsedSince(a)) >= MaxEntries

=============================================================================
