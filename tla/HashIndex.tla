------------------------------ MODULE HashIndex ------------------------------
(***************************************************************************)
(* The hash index kept beside the entries of a dict and the elements of a  *)
(* set (region.rs), and the methods that read and write both.  The index   *)
(* is a cache: it is built at the first lookup of a large container, and   *)
(* kept as long as its stamp, the length and the last key at build time,   *)
(* is that of the entries.  A key has two spellings: the canonical one the *)
(* index uses and the older one the methods compare, which is empty for a  *)
(* decimal or a compound.  A set element that equals nothing has no        *)
(* fingerprint: an empty canonical spelling.                               *)
(***************************************************************************)
EXTENDS Integers, Sequences, FiniteSets, SequencesExt

CONSTANTS Keys,        \* records of a canonical and an older spelling
          IndexMin,    \* DICT_INDEX_MIN and SET_INDEX_MIN
          MaxEntries,  \* bound: entries of the container
          Floor        \* bound: the program removes none below this length

\* The empty spelling.
Blank == ""

ASSUME IndexAssumption == {IndexMin, MaxEntries, Floor} \subseteq Nat
\* The older spelling of a key is the canonical one, or none (owned_to_key_str).
ASSUME KeysAssumption ==
  \A k \in Keys : k = [canon |-> k.canon, legacy |-> k.legacy] /\ k.legacy \in {k.canon, Blank}

VARIABLES kind,        \* "dict" or "set"
          entries,     \* the keys, in insertion order
          cache,       \* canonical key -> position
          stamp        \* length and last key when the cache was built

indexVars == <<kind, entries, cache, stamp>>

Nothing == [x \in {} |-> 0]
Empty == [length |-> 0, last |-> Blank]
Probes == {k.canon : k \in Keys} \cup {k.legacy : k \in Keys}

\* The first position whose key satisfies Is, 0 if there is none.
First(s, Is(_)) == IF \E i \in DOMAIN s : Is(s[i]) THEN CHOOSE i \in DOMAIN s : Is(s[i]) /\ \A j \in 1..(i - 1) : ~Is(s[j]) ELSE 0
\* Vec::retain: what of s is kept, in order.
Retain(s, Keep(_)) ==
  LET kept[i \in 0..Len(s)] ==
        IF i = 0 THEN <<>> ELSE IF Keep(s[i]) THEN Append(kept[i - 1], s[i]) ELSE kept[i - 1]
  IN  kept[Len(s)]
FirstAt(s, key) == First(s, LAMBDA k : k.canon = key)

\* A fresh cache: the first occurrence of every key, elements of a set without
\* a fingerprint left out.
BuiltLast(s) ==
  [c \in {s[i].canon : i \in {j \in DOMAIN s : kind = "dict" \/ s[j].canon # Blank}} |->
     CHOOSE i \in DOMAIN s : s[i].canon = c /\ \A j \in DOMAIN s : s[j].canon = c => j <= i]
Built(s) ==
  [c \in {s[i].canon : i \in {j \in DOMAIN s : kind = "dict" \/ s[j].canon # Blank}} |-> FirstAt(s, c)]

\* lookup: what it answers, and the cache and stamp it leaves.
Lookup(key) ==
  LET n == Len(entries)
      now == [length |-> n, last |-> entries[n].canon]
      map == IF stamp = now THEN cache ELSE Built(entries)
      at == IF key \notin DOMAIN map THEN 0
            ELSE IF entries[map[key]].canon = key THEN map[key] ELSE FirstAt(entries, key)
  IN  IF n < IndexMin THEN [at |-> FirstAt(entries, key), cache |-> cache, stamp |-> stamp]
      ELSE [at |-> at, cache |-> map, stamp |-> now]

\* record_append, after the push of `key`, on what a lookup left.
Recorded(found, key) ==
  IF found.stamp.length = Len(entries) /\ found.cache # Nothing
  THEN [cache |-> [c \in DOMAIN found.cache \cup {key} |->
                     IF c \in DOMAIN found.cache THEN found.cache[c] ELSE Len(entries) + 1],
        stamp |-> [length |-> Len(entries) + 1, last |-> key]]
  ELSE [cache |-> found.cache, stamp |-> found.stamp]

Index(state) == cache' = state.cache /\ stamp' = state.stamp
Untouched == [cache |-> cache, stamp |-> stamp, at |-> 0]
PushEntry(k, state) ==
  /\ Len(entries) < MaxEntries
  /\ entries' = Append(entries, k) /\ Index(state)

IndexInit ==
  /\ kind \in {"dict", "set"}
  /\ \E s \in BoundedSeq(Keys, IndexMin) :
       /\ kind = "set" => \A i, j \in DOMAIN s : i # j /\ s[i].canon = s[j].canon => s[i].canon = Blank
       /\ entries = s
  /\ cache = Nothing /\ stamp = Empty

-----------------------------------------------------------------------------
(* Dicts.                                                                     *)

\* dict_pos: a hit the older comparison would not accept is scanned for.
DictPos(found, k) ==
  IF found.at # 0 /\ entries[found.at].legacy # k.legacy THEN First(entries, LAMBDA e : e.legacy = k.legacy)
  ELSE found.at

\* d[k], of any key, and d.name.
Read(k) == LET found == Lookup(k.legacy) IN /\ Index(found) /\ UNCHANGED <<kind, entries>>

\* d[k] = v, where a new key becomes a string, and d.name = v.
Write(k) ==
  LET found == Lookup(k.legacy)
      text == [canon |-> k.legacy, legacy |-> k.legacy]
  IN  /\ IF found.at # 0 THEN UNCHANGED entries /\ Index(found)
         ELSE PushEntry(text, Recorded(found, k.legacy))
      /\ UNCHANGED kind

\* d.Add({k, v}): an empty spelling is scanned for, beside the index.
Add(k) ==
  LET found == IF k.legacy = Blank THEN Untouched ELSE Lookup(k.legacy)
      at == IF k.legacy = Blank THEN First(entries, LAMBDA e : e.legacy = Blank) ELSE DictPos(found, k)
  IN  /\ IF at # 0 THEN UNCHANGED entries /\ Index(found)
         ELSE PushEntry(k, IF k.legacy = Blank THEN found ELSE Recorded(found, k.legacy))
      /\ UNCHANGED kind

\* d.Remove(k) drops every entry under the key.
Drop(k) ==
  LET found == IF k.legacy = Blank THEN Untouched ELSE Lookup(k.legacy)
      present == IF k.legacy = Blank THEN \E i \in DOMAIN entries : entries[i].legacy = Blank ELSE DictPos(found, k) # 0
      left == IF present THEN Retain(entries, LAMBDA e : e.legacy # k.legacy) ELSE entries
  IN  /\ left # entries => Len(left) >= Floor
      /\ entries' = left /\ Index(found) /\ UNCHANGED kind

-----------------------------------------------------------------------------
(* Sets.                                                                      *)
Probe(k) == IF k.canon # Blank /\ Len(entries) >= IndexMin THEN Lookup(k.canon)
            ELSE [Untouched EXCEPT !.at = IF k.canon = Blank THEN 0 ELSE FirstAt(entries, k.canon)]
Has(k) == Index(Probe(k)) /\ UNCHANGED <<kind, entries>>
AddElement(k) ==
  /\ IF Probe(k).at # 0 THEN UNCHANGED entries /\ Index(Probe(k))
     ELSE PushEntry(k, IF k.canon = Blank THEN Untouched ELSE Recorded(Probe(k), k.canon))
  /\ UNCHANGED kind
Delete(k) ==
  /\ Probe(k).at # 0 => Len(entries) > Floor
  /\ entries' = IF Probe(k).at = 0 THEN entries ELSE RemoveAt(entries, Probe(k).at)
  /\ Index(Probe(k)) /\ UNCHANGED kind

\* union and intersection make a set of their own.
Union(k) ==
  /\ Len(entries) < MaxEntries
  /\ entries' = IF k.canon # Blank /\ \E i \in DOMAIN entries : entries[i].canon = k.canon THEN entries
                ELSE Append(entries, k)
  /\ cache' = Nothing /\ stamp' = Empty /\ UNCHANGED kind
Intersection(k) ==
  /\ entries' = Retain(entries, LAMBDA e : e.canon # Blank /\ e.canon = k.canon)
  /\ Len(entries') >= Floor
  /\ cache' = Nothing /\ stamp' = Empty /\ UNCHANGED kind

-----------------------------------------------------------------------------
\* RemoveAll and clear leave the index; a copy starts without one.
Clear == Floor = 0 /\ entries' = <<>> /\ UNCHANGED <<kind, cache, stamp>>
Copy == cache' = Nothing /\ stamp' = Empty /\ UNCHANGED <<kind, entries>>

IndexNext ==
  \/ kind = "dict" /\ \E k \in Keys : Read(k) \/ Write(k) \/ Add(k) \/ Drop(k)
  \/ kind = "set" /\ \E k \in Keys : Has(k) \/ AddElement(k) \/ Delete(k) \/ Union(k) \/ Intersection(k)
  \/ Clear \/ Copy

IndexSpec == IndexInit /\ [][IndexNext]_indexVars

-----------------------------------------------------------------------------
\* A set never holds an element twice (methods_set.rs:76).
NoElementTwice ==
  kind = "set" =>
    \A i, j \in DOMAIN entries : i # j /\ entries[i].canon = entries[j].canon => entries[i].canon = Blank

\* A lookup through the index finds what the scan from the first entry finds
\* (region.rs:171), and no set holds an element twice.
LookupIsFindFirst ==
  /\ \A key \in Probes :
       entries # <<>> /\ (kind = "dict" \/ key # Blank) => Lookup(key).at = FirstAt(entries, key)
  /\ NoElementTwice
=============================================================================
