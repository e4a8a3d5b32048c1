------------------------- MODULE KeychainFileProofs -------------------------
(***************************************************************************)
(* Proofs about KeychainFile, for any number of processes and any records. *)
(***************************************************************************)
EXTENDS KeychainFile, FiniteSetTheorems, TLAPS

Good(c) == IsContents(c) /\ Sound(c) /\ Opens(c)

-----------------------------------------------------------------------------
(* Tables.                                                                 *)

(* A commit changes nothing else in the file. *)
LEMMA BumpedFields ==
  ASSUME NEW c, IsContents(c), NEW count \in Nat
  PROVE  Bumped(c, count) =
           [items |-> c.items, keyRecords |-> c.keyRecords,
            certificates |-> c.certificates, privateKeys |-> c.privateKeys,
            certificateTable |-> c.certificateTable, password |-> c.password,
            master |-> c.master, commit |-> c.commit + count]
  BY DEF Bumped, IsContents

(* Versions are natural numbers. *)
LEMMA Fields ==
  /\ \A r \in Item : r.id \in Ids /\ r.label \in Labels /\ r.version \in Nat
  /\ \A r \in KeyRecord : r.label \in Labels /\ r.under \in Nat /\ r.version \in Nat
  /\ \A r \in Certificate : r.hash \in Hashes /\ r.version \in Nat
  /\ \A r \in PrivateKey : r.hash \in Hashes /\ r.version \in Nat
  BY DEF Item, KeyRecord, Certificate, PrivateKey

(* The pairing of items and key records, record by record. *)
Matched(items, keyRecords) ==
  /\ \A n \in DOMAIN items : \E k \in DOMAIN keyRecords : keyRecords[k].label = items[n].label
  /\ \A k \in DOMAIN keyRecords : \E n \in DOMAIN items : items[n].label = keyRecords[k].label
  /\ \A j, k \in DOMAIN keyRecords : keyRecords[j].label = keyRecords[k].label => j = k

(* Both forms of the pairing agree. *)
LEMMA PairedMatched ==
  ASSUME NEW c
  PROVE  Paired(c) <=> Matched(c.items, c.keyRecords)
<1>1. ASSUME Paired(c) PROVE Matched(c.items, c.keyRecords)
  <2>1. ASSUME NEW n \in DOMAIN c.items
        PROVE  \E k \in DOMAIN c.keyRecords :
                 /\ c.keyRecords[k].label = c.items[n].label
                 /\ \A j \in DOMAIN c.keyRecords :
                      c.keyRecords[j].label = c.items[n].label => j = k
    BY <1>1 DEF Paired, KeyNumbers
  <2>2. ASSUME NEW k \in DOMAIN c.keyRecords
        PROVE  \E n \in DOMAIN c.items : c.items[n].label = c.keyRecords[k].label
    BY <1>1 DEF Paired, LabelsIn
  <2> QED
    BY <2>1, <2>2 DEF Matched
<1>2. ASSUME Matched(c.items, c.keyRecords) PROVE Paired(c)
  <2>1. ASSUME NEW n \in DOMAIN c.items
        PROVE  \E k \in DOMAIN c.keyRecords : KeyNumbers(c, c.items[n].label) = {k}
    <3>1. PICK k \in DOMAIN c.keyRecords : c.keyRecords[k].label = c.items[n].label
      BY <1>2 DEF Matched
    <3>2. KeyNumbers(c, c.items[n].label) = {k}
      BY <1>2, <3>1 DEF Matched, KeyNumbers
    <3> QED
      BY <3>2
  <2>2. LabelsIn(c.keyRecords) \subseteq LabelsIn(c.items)
    BY <1>2 DEF Matched, LabelsIn
  <2> QED
    BY <2>1, <2>2 DEF Paired
<1> QED
  BY <1>1, <1>2

(* The identities and labels of items, table by table. *)
Unique(items) ==
  \A m, n \in DOMAIN items :
    m # n => items[m].id # items[n].id /\ items[m].label # items[n].label

Behind(table, commit) == \A n \in DOMAIN table : table[n].version =< commit

Under(keyRecords, master) == \A k \in DOMAIN keyRecords : keyRecords[k].under = master

(* A good file, field by field. *)
GoodFields(items, keyRecords, certificates, privateKeys, certificateTable, password,
           master, commit) ==
  /\ IsTable(items, Item) /\ IsTable(keyRecords, KeyRecord)
  /\ IsTable(certificates, Certificate) /\ IsTable(privateKeys, PrivateKey)
  /\ certificateTable \in BOOLEAN /\ password \in Passwords
  /\ master \in Nat /\ commit \in Nat
  /\ Matched(items, keyRecords) /\ Unique(items) /\ Under(keyRecords, master)
  /\ Behind(items, commit) /\ Behind(keyRecords, commit)
  /\ Behind(certificates, commit) /\ Behind(privateKeys, commit)
  /\ certificates # EmptyTable => certificateTable

(* A record whose fields are good is a good file, *)
LEMMA GoodFromFields ==
  ASSUME NEW i, NEW k, NEW ce, NEW pk, NEW ct, NEW pw, NEW m, NEW v,
         GoodFields(i, k, ce, pk, ct, pw, m, v)
  PROVE  Good([items |-> i, keyRecords |-> k, certificates |-> ce, privateKeys |-> pk,
               certificateTable |-> ct, password |-> pw, master |-> m, commit |-> v])
<1> DEFINE c == [items |-> i, keyRecords |-> k, certificates |-> ce, privateKeys |-> pk,
               certificateTable |-> ct, password |-> pw, master |-> m, commit |-> v]
<1>1. /\ c.items = i /\ c.keyRecords = k /\ c.certificates = ce /\ c.privateKeys = pk
      /\ c.certificateTable = ct /\ c.password = pw /\ c.master = m /\ c.commit = v
  OBVIOUS
<1>2. c = [items |-> c.items, keyRecords |-> c.keyRecords,
          certificates |-> c.certificates, privateKeys |-> c.privateKeys,
          certificateTable |-> c.certificateTable, password |-> c.password,
          master |-> c.master, commit |-> c.commit]
  OBVIOUS
<1> HIDE DEF c
<1>3. IsContents(c)
  BY <1>1, <1>2, Zenon DEF IsContents, GoodFields
<1>4. Paired(c)
  BY <1>1, PairedMatched, Zenon DEF GoodFields
<1>5. UniqueItems(c) /\ Opens(c)
  BY <1>1, Zenon DEF GoodFields, UniqueItems, Unique, Opens, Under
<1>6. Versions(c)
  BY <1>1, Zenon DEF GoodFields, Versions, Behind
<1>7. Declared(c)
  BY <1>1, Zenon DEF GoodFields, Declared
<1> QED
  BY <1>3, <1>4, <1>5, <1>6, <1>7 DEF Good, Sound, c

(* and the fields of a good file are good. *)
LEMMA FieldsFromGood ==
  ASSUME NEW c, Good(c)
  PROVE  GoodFields(c.items, c.keyRecords, c.certificates, c.privateKeys,
                    c.certificateTable, c.password, c.master, c.commit)
<1>1. /\ IsContents(c) /\ Paired(c) /\ UniqueItems(c) /\ Versions(c) /\ Declared(c)
      /\ Opens(c)
  BY DEF Good, Sound
<1>2. Matched(c.items, c.keyRecords)
  BY <1>1, PairedMatched
<1>3. Unique(c.items) /\ Under(c.keyRecords, c.master)
  BY <1>1, Zenon DEF UniqueItems, Unique, Opens, Under
<1>4. /\ Behind(c.items, c.commit) /\ Behind(c.keyRecords, c.commit)
      /\ Behind(c.certificates, c.commit) /\ Behind(c.privateKeys, c.commit)
  BY <1>1 DEF Versions, Behind
<1> QED
  BY <1>1, <1>2, <1>3, <1>4, Zenon DEF GoodFields, IsContents, Declared

(* Records stay behind a later commit. *)
LEMMA BehindLater ==
  ASSUME NEW t, NEW R, IsTable(t, R), \A r \in R : r.version \in Nat,
         NEW v \in Nat, NEW w \in Nat, v =< w, Behind(t, v)
  PROVE  Behind(t, w)
<1> SUFFICES ASSUME NEW n \in DOMAIN t PROVE t[n].version =< w
  BY DEF Behind
<1>1. t[n].version \in Nat /\ t[n].version =< v
  BY DEF Behind, IsTable
<1> QED
  BY <1>1

(* All tables of a good file stay behind a later commit. *)
LEMMA AllBehind ==
  ASSUME NEW c, Good(c), NEW w \in Nat, c.commit =< w
  PROVE  /\ Behind(c.items, w) /\ Behind(c.keyRecords, w)
         /\ Behind(c.certificates, w) /\ Behind(c.privateKeys, w)
<1>1. /\ IsTable(c.items, Item) /\ IsTable(c.keyRecords, KeyRecord)
      /\ IsTable(c.certificates, Certificate) /\ IsTable(c.privateKeys, PrivateKey)
      /\ Behind(c.items, c.commit) /\ Behind(c.keyRecords, c.commit)
      /\ Behind(c.certificates, c.commit) /\ Behind(c.privateKeys, c.commit)
      /\ c.commit \in Nat
  BY FieldsFromGood, Zenon DEF GoodFields
<1> QED
  BY <1>1, Fields, BehindLater

(* Fewer records stay behind the same commit. *)
LEMMA WithoutBehind ==
  ASSUME NEW t, NEW S, NEW v, Behind(t, v)
  PROVE  Behind(Without(t, S), v)
  BY DEF Behind, Without

(* A table with fewer records is a table. *)
LEMMA WithoutIsTable ==
  ASSUME NEW t, NEW S, NEW R, IsTable(t, R)
  PROVE  IsTable(Without(t, S), R)
  BY DEF IsTable, Without

(* A record of this commit in a table behind it. *)
LEMMA WithBehind ==
  ASSUME NEW t, NEW n, NEW r, NEW v \in Nat, Behind(t, v), r.version = v
  PROVE  Behind(With(t, n, r), v)
<1> SUFFICES ASSUME NEW m \in DOMAIN With(t, n, r) PROVE With(t, n, r)[m].version =< v
  BY DEF Behind
<1>1. CASE m = n
  BY <1>1 DEF With
<1>2. CASE m # n
  <2>1. m \in DOMAIN t /\ With(t, n, r)[m] = t[m]
    BY <1>2 DEF With
  <2> QED
    BY <2>1 DEF Behind
<1> QED
  BY <1>1, <1>2

(* A table with one more record is a table. *)
LEMMA WithIsTable ==
  ASSUME NEW t, NEW n \in Numbers, NEW R, NEW r \in R, IsTable(t, R)
  PROVE  IsTable(With(t, n, r), R)
<1>1. DOMAIN With(t, n, r) \subseteq Numbers
  BY DEF IsTable, With
<1>2. \A m \in DOMAIN With(t, n, r) : With(t, n, r)[m] \in R
  BY DEF IsTable, With
<1> QED
  BY <1>1, <1>2 DEF IsTable

-----------------------------------------------------------------------------
(* Operations on a copy.  Each keeps it good and moves its commit version on. *)

Later(c, d) == Good(d) /\ d.commit \in Nat /\ d.commit > c.commit

(* One commit, or several, and nothing else. *)
LEMMA BumpKeeps ==
  ASSUME NEW c, Good(c), NEW count \in Nat \ {0}
  PROVE  /\ Later(c, Bumped(c, count))
         /\ Bumped(c, count).keyRecords = c.keyRecords
         /\ Bumped(c, count).master = c.master
<1> DEFINE w == c.commit + count
<1>1. GoodFields(c.items, c.keyRecords, c.certificates, c.privateKeys,
                 c.certificateTable, c.password, c.master, c.commit)
  BY FieldsFromGood
<1>2. w \in Nat /\ c.commit =< w /\ w > c.commit
  BY <1>1 DEF GoodFields
<1>3. GoodFields(c.items, c.keyRecords, c.certificates, c.privateKeys,
                 c.certificateTable, c.password, c.master, w)
  BY <1>1, <1>2, AllBehind, Zenon DEF GoodFields
<1>4. Bumped(c, count) =
           [items |-> c.items, keyRecords |-> c.keyRecords,
            certificates |-> c.certificates, privateKeys |-> c.privateKeys,
            certificateTable |-> c.certificateTable, password |-> c.password,
            master |-> c.master, commit |-> w]
  BY BumpedFields DEF Good
<1> HIDE DEF w
<1>5. Good(Bumped(c, count))
  BY <1>3, <1>4, GoodFromFields
<1>6. /\ Bumped(c, count).commit = w /\ Bumped(c, count).keyRecords = c.keyRecords
      /\ Bumped(c, count).master = c.master
  BY <1>4
<1> QED
  BY <1>2, <1>5, <1>6 DEF Later

(* What an added password does to the copy. *)
Added(c, id, n, k, label) ==
  LET b == Bumped(c, 1)
  IN  [b EXCEPT
         !.keyRecords = With(@, k, [label |-> label, under |-> c.master, version |-> b.commit]),
         !.items = With(@, n, [id |-> id, label |-> label, version |-> b.commit])]

(* An added password: the item and its key record go in together. *)
LEMMA AddKeeps ==
  ASSUME NEW c, Good(c), NEW id \in Ids, NEW n \in Numbers \ DOMAIN c.items,
         NEW k \in Numbers \ DOMAIN c.keyRecords,
         NEW label \in Labels \ LabelsIn(c.items),
         \A m \in DOMAIN c.items : c.items[m].id # id
  PROVE  /\ Later(c, Added(c, id, n, k, label))
         /\ Added(c, id, n, k, label).master = c.master
         /\ LabelsIn(Added(c, id, n, k, label).keyRecords) = LabelsIn(c.keyRecords) \union {label}
<1> DEFINE w == c.commit + 1
           d == Added(c, id, n, k, label)
           key == [label |-> label, under |-> c.master, version |-> w]
           item == [id |-> id, label |-> label, version |-> w]
           keyRecords == With(c.keyRecords, k, key)
           items == With(c.items, n, item)
<1>1. GoodFields(c.items, c.keyRecords, c.certificates, c.privateKeys,
                 c.certificateTable, c.password, c.master, c.commit)
  BY FieldsFromGood
<1>2. w \in Nat /\ c.commit =< w /\ w > c.commit /\ c.master \in Nat
  BY <1>1 DEF GoodFields
<1>3. Bumped(c, 1) =
           [items |-> c.items, keyRecords |-> c.keyRecords,
            certificates |-> c.certificates, privateKeys |-> c.privateKeys,
            certificateTable |-> c.certificateTable, password |-> c.password,
            master |-> c.master, commit |-> w]
  BY BumpedFields DEF Good
<1>4. d = [items |-> items, keyRecords |-> keyRecords,
            certificates |-> c.certificates, privateKeys |-> c.privateKeys,
            certificateTable |-> c.certificateTable, password |-> c.password,
            master |-> c.master, commit |-> w]
  <2> DEFINE b == Bumped(c, 1)
  <2>1. d = [b EXCEPT
              !.keyRecords = With(b.keyRecords, k,
                               [label |-> label, under |-> c.master, version |-> b.commit]),
              !.items = With(b.items, n, [id |-> id, label |-> label, version |-> b.commit])]
    BY Zenon DEF Added
  <2>2. b.keyRecords = c.keyRecords /\ b.items = c.items /\ b.commit = w
    BY <1>3
  <2> HIDE DEF b
  <2>3. d = [b EXCEPT !.keyRecords = keyRecords, !.items = items]
    BY <2>1, <2>2, Zenon
  <2> HIDE DEF keyRecords, items
  <2>4. b = [items |-> c.items, keyRecords |-> c.keyRecords,
            certificates |-> c.certificates, privateKeys |-> c.privateKeys,
            certificateTable |-> c.certificateTable, password |-> c.password,
            master |-> c.master, commit |-> w]
    BY <1>3, Zenon DEF b
  <2> HIDE DEF d, w
  <2> QED
    BY <2>3, <2>4
<1>5. key \in KeyRecord /\ item \in Item
  BY <1>2 DEF KeyRecord, Item
<1>6. /\ key.label = label /\ key.under = c.master /\ key.version = w
      /\ item.id = id /\ item.label = label /\ item.version = w
  OBVIOUS
<1> HIDE DEF w, d, key, item
<1>7. /\ DOMAIN items = DOMAIN c.items \union {n} /\ items[n] = item
      /\ \A m \in DOMAIN c.items : items[m] = c.items[m]
  BY DEF With
<1>8. /\ DOMAIN keyRecords = DOMAIN c.keyRecords \union {k} /\ keyRecords[k] = key
      /\ \A j \in DOMAIN c.keyRecords : keyRecords[j] = c.keyRecords[j]
  BY DEF With
<1>9. Behind(items, w) /\ Behind(keyRecords, w)
  BY <1>2, <1>6, AllBehind, WithBehind
<1>10. IsTable(items, Item) /\ IsTable(keyRecords, KeyRecord)
  <2>1. IsTable(c.items, Item) /\ IsTable(c.keyRecords, KeyRecord)
    BY <1>1, Zenon DEF GoodFields
  <2> QED
    BY <2>1, <1>5, WithIsTable
<1>f. (\A m \in DOMAIN c.items : c.items[m].label # label)
      /\ Matched(c.items, c.keyRecords) /\ Unique(c.items) /\ Under(c.keyRecords, c.master)
  <2>1. \A m \in DOMAIN c.items : c.items[m].label # label
    BY DEF LabelsIn
  <2> QED
    BY <2>1, <1>1, Zenon DEF GoodFields
<1> HIDE DEF items, keyRecords
<1>11. Unique(items)
  BY <1>6, <1>7, <1>f DEF Unique
<1>12. Under(keyRecords, c.master)
  BY <1>6, <1>8, <1>f DEF Under
<1>13. Matched(items, keyRecords)
  <2>1. \A j \in DOMAIN c.keyRecords : c.keyRecords[j].label # label
    BY <1>f DEF Matched
  <2>2. \A m \in DOMAIN items : \E j \in DOMAIN keyRecords : keyRecords[j].label = items[m].label
    BY <1>6, <1>7, <1>8, <1>f DEF Matched
  <2>3. \A j \in DOMAIN keyRecords : \E m \in DOMAIN items : items[m].label = keyRecords[j].label
    BY <1>6, <1>7, <1>8, <1>f DEF Matched
  <2>4. \A i, j \in DOMAIN keyRecords : keyRecords[i].label = keyRecords[j].label => i = j
    BY <1>6, <1>8, <1>f, <2>1 DEF Matched
  <2> QED
    BY <2>2, <2>3, <2>4 DEF Matched
<1>14. Good(d)
  <2>1. GoodFields(items, keyRecords, c.certificates, c.privateKeys,
                 c.certificateTable, c.password, c.master, w)
    BY <1>1, <1>2, <1>9, <1>10, <1>11, <1>12, <1>13, AllBehind, Zenon DEF GoodFields
  <2> QED
    BY <2>1, <1>4, GoodFromFields
<1>15. d.commit = w /\ d.master = c.master /\ d.keyRecords = keyRecords
  BY <1>4
<1>16. LabelsIn(keyRecords) = LabelsIn(c.keyRecords) \union {label}
  BY <1>6, <1>8 DEF LabelsIn
<1> QED
  BY <1>2, <1>14, <1>15, <1>16 DEF Later, d

(* An update stamps the item and leaves its identity and label. *)
LEMMA UpdateKeeps ==
  ASSUME NEW c, Good(c), NEW n \in DOMAIN c.items
  PROVE  /\ Later(c, Updated(c, n))
         /\ Updated(c, n).keyRecords = c.keyRecords
         /\ Updated(c, n).master = c.master
<1> DEFINE w == c.commit + 1
           d == Updated(c, n)
           item == [c.items[n] EXCEPT !.version = w]
           items == [c.items EXCEPT ![n] = item]
<1>1. GoodFields(c.items, c.keyRecords, c.certificates, c.privateKeys,
                 c.certificateTable, c.password, c.master, c.commit)
  BY FieldsFromGood
<1>2. w \in Nat /\ c.commit =< w /\ w > c.commit
  BY <1>1 DEF GoodFields
<1>3. Bumped(c, 1) =
           [items |-> c.items, keyRecords |-> c.keyRecords,
            certificates |-> c.certificates, privateKeys |-> c.privateKeys,
            certificateTable |-> c.certificateTable, password |-> c.password,
            master |-> c.master, commit |-> w]
  BY BumpedFields DEF Good
<1>4. d = [items |-> items, keyRecords |-> c.keyRecords,
            certificates |-> c.certificates, privateKeys |-> c.privateKeys,
            certificateTable |-> c.certificateTable, password |-> c.password,
            master |-> c.master, commit |-> w]
  <2> DEFINE b == Bumped(c, 1)
  <2>1. d = [b EXCEPT !.items =
               [b.items EXCEPT ![n] = [b.items[n] EXCEPT !.version = b.commit]]]
    BY Zenon DEF Updated
  <2>2. b.items = c.items /\ b.commit = w
    BY <1>3
  <2> HIDE DEF b
  <2>3. d = [b EXCEPT !.items = items]
    BY <2>1, <2>2, Zenon
  <2> HIDE DEF items
  <2>4. b = [items |-> c.items, keyRecords |-> c.keyRecords,
            certificates |-> c.certificates, privateKeys |-> c.privateKeys,
            certificateTable |-> c.certificateTable, password |-> c.password,
            master |-> c.master, commit |-> w]
    BY <1>3, Zenon DEF b
  <2> HIDE DEF d, w
  <2> QED
    BY <2>3, <2>4
<1>5. c.items[n] \in Item /\ IsTable(c.items, Item)
  BY <1>1 DEF GoodFields, IsTable
<1>6. /\ item \in Item /\ item.version = w
      /\ item.id = c.items[n].id /\ item.label = c.items[n].label
  BY <1>2, <1>5 DEF Item
<1> HIDE DEF w, d, item
<1>7. /\ DOMAIN items = DOMAIN c.items
      /\ \A m \in DOMAIN c.items : items[m] = IF m = n THEN item ELSE c.items[m]
  OBVIOUS
<1> HIDE DEF items
<1>8. \A m \in DOMAIN c.items : items[m].id = c.items[m].id /\ items[m].label = c.items[m].label
  BY <1>6, <1>7
<1>9. Matched(c.items, c.keyRecords) /\ Unique(c.items) /\ Behind(c.items, w)
  BY <1>1, <1>2, AllBehind, Zenon DEF GoodFields
<1>10. Unique(items)
  BY <1>7, <1>8, <1>9 DEF Unique
<1>11. Matched(items, c.keyRecords)
  BY <1>7, <1>8, <1>9 DEF Matched
<1>12. Behind(items, w)
  BY <1>2, <1>6, <1>7, <1>9 DEF Behind
<1>13. IsTable(items, Item)
  BY <1>5, <1>6, <1>7 DEF IsTable
<1>14. Good(d)
  <2>1. GoodFields(items, c.keyRecords, c.certificates, c.privateKeys,
                 c.certificateTable, c.password, c.master, w)
    BY <1>1, <1>2, <1>10, <1>11, <1>12, <1>13, AllBehind, Zenon DEF GoodFields
  <2> QED
    BY <2>1, <1>4, GoodFromFields
<1>15. d.commit = w /\ d.master = c.master /\ d.keyRecords = c.keyRecords
  BY <1>4
<1> QED
  BY <1>2, <1>14, <1>15 DEF Later, d

(* What deleting item n with key record k does to the copy. *)
Deleted(c, n, k) ==
  [Bumped(c, 2) EXCEPT !.items = Without(@, {n}), !.keyRecords = Without(@, {k})]

(* A deleted item takes its key record with it, and no other. *)
LEMMA DeleteKeeps ==
  ASSUME NEW c, Good(c), NEW n \in DOMAIN c.items, NEW k \in DOMAIN c.keyRecords,
         c.keyRecords[k].label = c.items[n].label
  PROVE  /\ Later(c, Deleted(c, n, k))
         /\ Deleted(c, n, k).master = c.master
         /\ LabelsIn(Deleted(c, n, k).keyRecords) = LabelsIn(c.keyRecords) \ {c.items[n].label}
<1> DEFINE w == c.commit + 2
           d == Deleted(c, n, k)
           items == Without(c.items, {n})
           keyRecords == Without(c.keyRecords, {k})
<1>1. GoodFields(c.items, c.keyRecords, c.certificates, c.privateKeys,
                 c.certificateTable, c.password, c.master, c.commit)
  BY FieldsFromGood
<1>2. w \in Nat /\ c.commit =< w /\ w > c.commit
  BY <1>1 DEF GoodFields
<1>3. Bumped(c, 2) =
           [items |-> c.items, keyRecords |-> c.keyRecords,
            certificates |-> c.certificates, privateKeys |-> c.privateKeys,
            certificateTable |-> c.certificateTable, password |-> c.password,
            master |-> c.master, commit |-> w]
  BY BumpedFields DEF Good
<1>4. d = [items |-> items, keyRecords |-> keyRecords,
            certificates |-> c.certificates, privateKeys |-> c.privateKeys,
            certificateTable |-> c.certificateTable, password |-> c.password,
            master |-> c.master, commit |-> w]
  <2> DEFINE b == Bumped(c, 2)
  <2>1. d = [b EXCEPT !.items = Without(b.items, {n}), !.keyRecords = Without(b.keyRecords, {k})]
    BY Zenon DEF Deleted
  <2>2. b.items = c.items /\ b.keyRecords = c.keyRecords
    BY <1>3
  <2> HIDE DEF b
  <2>3. d = [b EXCEPT !.items = items, !.keyRecords = keyRecords]
    BY <2>1, <2>2, Zenon
  <2> HIDE DEF keyRecords, items
  <2>4. b = [items |-> c.items, keyRecords |-> c.keyRecords,
            certificates |-> c.certificates, privateKeys |-> c.privateKeys,
            certificateTable |-> c.certificateTable, password |-> c.password,
            master |-> c.master, commit |-> w]
    BY <1>3, Zenon DEF b
  <2> HIDE DEF d, w
  <2> QED
    BY <2>3, <2>4
<1> HIDE DEF w, d
<1>5. /\ DOMAIN items = DOMAIN c.items \ {n}
      /\ \A m \in DOMAIN items : items[m] = c.items[m]
  BY DEF Without
<1>6. /\ DOMAIN keyRecords = DOMAIN c.keyRecords \ {k}
      /\ \A j \in DOMAIN keyRecords : keyRecords[j] = c.keyRecords[j]
  BY DEF Without
<1>7. /\ Matched(c.items, c.keyRecords) /\ Unique(c.items) /\ Under(c.keyRecords, c.master)
      /\ IsTable(c.items, Item) /\ IsTable(c.keyRecords, KeyRecord)
  BY <1>1, Zenon DEF GoodFields
<1>8. /\ Behind(c.items, w) /\ Behind(c.keyRecords, w)
      /\ Behind(c.certificates, w) /\ Behind(c.privateKeys, w)
  BY <1>2, AllBehind
<1>9. IsTable(items, Item) /\ IsTable(keyRecords, KeyRecord)
  BY <1>7, WithoutIsTable
<1>10. Behind(items, w) /\ Behind(keyRecords, w)
  BY <1>8, WithoutBehind
<1> HIDE DEF items, keyRecords
<1>11. Unique(items) /\ Under(keyRecords, c.master)
  BY <1>5, <1>6, <1>7 DEF Unique, Under
<1>12. Matched(items, keyRecords)
  <2>1. \A m \in DOMAIN items : \E j \in DOMAIN keyRecords : keyRecords[j].label = items[m].label
    <3> SUFFICES ASSUME NEW m \in DOMAIN items
                 PROVE  \E j \in DOMAIN keyRecords : keyRecords[j].label = items[m].label
      OBVIOUS
    <3>1. m # n /\ m \in DOMAIN c.items /\ items[m] = c.items[m]
      BY <1>5
    <3>2. PICK j \in DOMAIN c.keyRecords : c.keyRecords[j].label = c.items[m].label
      BY <1>7, <3>1 DEF Matched
    <3>3. c.items[m].label # c.items[n].label
      BY <1>7, <3>1 DEF Unique
    <3>4. j # k
      BY <3>2, <3>3
    <3> QED
      BY <1>6, <3>1, <3>2, <3>4
  <2>2. \A j \in DOMAIN keyRecords : \E m \in DOMAIN items : items[m].label = keyRecords[j].label
    <3> SUFFICES ASSUME NEW j \in DOMAIN keyRecords
                 PROVE  \E m \in DOMAIN items : items[m].label = keyRecords[j].label
      OBVIOUS
    <3>1. j # k /\ j \in DOMAIN c.keyRecords /\ keyRecords[j] = c.keyRecords[j]
      BY <1>6
    <3>2. PICK m \in DOMAIN c.items : c.items[m].label = c.keyRecords[j].label
      BY <1>7, <3>1 DEF Matched
    <3>3. m # n
      BY <1>7, <3>1, <3>2 DEF Matched
    <3> QED
      BY <1>5, <3>1, <3>2, <3>3
  <2>3. \A i, j \in DOMAIN keyRecords : keyRecords[i].label = keyRecords[j].label => i = j
    BY <1>6, <1>7 DEF Matched
  <2> QED
    BY <2>1, <2>2, <2>3 DEF Matched
<1>13. Good(d)
  <2>1. GoodFields(items, keyRecords, c.certificates, c.privateKeys,
                 c.certificateTable, c.password, c.master, w)
    BY <1>1, <1>2, <1>8, <1>9, <1>10, <1>11, <1>12, Zenon DEF GoodFields
  <2> QED
    BY <2>1, <1>4, GoodFromFields
<1>14. d.commit = w /\ d.master = c.master /\ d.keyRecords = keyRecords
  BY <1>4
<1>15. LabelsIn(keyRecords) = LabelsIn(c.keyRecords) \ {c.items[n].label}
  <2>1. ASSUME NEW j \in DOMAIN keyRecords
        PROVE  keyRecords[j].label \in LabelsIn(c.keyRecords) \ {c.items[n].label}
    BY <1>6, <1>7 DEF Matched, LabelsIn
  <2>2. ASSUME NEW j \in DOMAIN c.keyRecords, c.keyRecords[j].label # c.items[n].label
        PROVE  c.keyRecords[j].label \in LabelsIn(keyRecords)
    BY <1>6, <2>2 DEF LabelsIn
  <2> QED
    BY <2>1, <2>2 DEF LabelsIn
<1> QED
  BY <1>2, <1>13, <1>14, <1>15 DEF Later, d

(* What an added identity does to the copy. *)
IdentityAdded(c, hash, n, k) ==
  LET b == Bumped(c, 1)
  IN  [b EXCEPT
         !.certificateTable = TRUE,
         !.privateKeys = With(@, k, [hash |-> hash, version |-> b.commit]),
         !.certificates = With(@, n, [hash |-> hash, version |-> b.commit])]

(* An added identity stands in a declared table. *)
LEMMA AddIdentityKeeps ==
  ASSUME NEW c, Good(c), NEW hash \in Hashes, NEW n \in Numbers, NEW k \in Numbers
  PROVE  /\ Later(c, IdentityAdded(c, hash, n, k))
         /\ IdentityAdded(c, hash, n, k).keyRecords = c.keyRecords
         /\ IdentityAdded(c, hash, n, k).master = c.master
<1> DEFINE w == c.commit + 1
           d == IdentityAdded(c, hash, n, k)
           record == [hash |-> hash, version |-> w]
           privateKeys == With(c.privateKeys, k, record)
           certificates == With(c.certificates, n, record)
<1>1. GoodFields(c.items, c.keyRecords, c.certificates, c.privateKeys,
                 c.certificateTable, c.password, c.master, c.commit)
  BY FieldsFromGood
<1>2. w \in Nat /\ c.commit =< w /\ w > c.commit
  BY <1>1 DEF GoodFields
<1>3. Bumped(c, 1) =
           [items |-> c.items, keyRecords |-> c.keyRecords,
            certificates |-> c.certificates, privateKeys |-> c.privateKeys,
            certificateTable |-> c.certificateTable, password |-> c.password,
            master |-> c.master, commit |-> w]
  BY BumpedFields DEF Good
<1>4. d = [items |-> c.items, keyRecords |-> c.keyRecords,
            certificates |-> certificates, privateKeys |-> privateKeys,
            certificateTable |-> TRUE, password |-> c.password,
            master |-> c.master, commit |-> w]
  <2> DEFINE b == Bumped(c, 1)
  <2>1. d = [b EXCEPT
              !.certificateTable = TRUE,
              !.privateKeys = With(b.privateKeys, k, [hash |-> hash, version |-> b.commit]),
              !.certificates = With(b.certificates, n, [hash |-> hash, version |-> b.commit])]
    BY Zenon DEF IdentityAdded
  <2>2. b.certificates = c.certificates /\ b.privateKeys = c.privateKeys /\ b.commit = w
    BY <1>3
  <2> HIDE DEF b
  <2>3. d = [b EXCEPT !.certificateTable = TRUE, !.privateKeys = privateKeys,
                      !.certificates = certificates]
    BY <2>1, <2>2, Zenon
  <2> HIDE DEF privateKeys, certificates
  <2>4. b = [items |-> c.items, keyRecords |-> c.keyRecords,
            certificates |-> c.certificates, privateKeys |-> c.privateKeys,
            certificateTable |-> c.certificateTable, password |-> c.password,
            master |-> c.master, commit |-> w]
    BY <1>3, Zenon DEF b
  <2> HIDE DEF d, w
  <2> QED
    BY <2>3, <2>4
<1>5. record \in Certificate /\ record \in PrivateKey /\ record.version = w
  BY <1>2 DEF Certificate, PrivateKey
<1> HIDE DEF w, d, record
<1>6. /\ Behind(c.items, w) /\ Behind(c.keyRecords, w)
      /\ Behind(c.certificates, w) /\ Behind(c.privateKeys, w)
  BY <1>2, AllBehind
<1>7. Behind(certificates, w) /\ Behind(privateKeys, w)
  BY <1>2, <1>5, <1>6, WithBehind
<1>8. IsTable(certificates, Certificate) /\ IsTable(privateKeys, PrivateKey)
  <2>1. IsTable(c.certificates, Certificate) /\ IsTable(c.privateKeys, PrivateKey)
    BY <1>1, Zenon DEF GoodFields
  <2> QED
    BY <2>1, <1>5, WithIsTable
<1> HIDE DEF privateKeys, certificates
<1>9. GoodFields(c.items, c.keyRecords, certificates, privateKeys, TRUE, c.password, c.master, w)
  <2>1. TRUE \in BOOLEAN
    OBVIOUS
  <2> QED
    BY <2>1, <1>1, <1>2, <1>6, <1>7, <1>8, Zenon DEF GoodFields
<1>10. Good(d)
  BY <1>4, <1>9, GoodFromFields
<1>11. d.commit = w /\ d.master = c.master /\ d.keyRecords = c.keyRecords
  BY <1>4
<1> QED
  BY <1>2, <1>10, <1>11 DEF Later, d

(* What a deleted identity leaves of the copy. *)
IdentityDeleted(c, certificates, keys, removed) ==
  [Bumped(c, removed) EXCEPT
     !.certificates = Without(@, certificates),
     !.privateKeys = Without(@, keys)]

(* A deleted identity leaves items and keys alone. *)
LEMMA DeleteIdentityKeeps ==
  ASSUME NEW c, Good(c), NEW certs, NEW keys, NEW removed \in Nat \ {0}
  PROVE  /\ Later(c, IdentityDeleted(c, certs, keys, removed))
         /\ IdentityDeleted(c, certs, keys, removed).keyRecords = c.keyRecords
         /\ IdentityDeleted(c, certs, keys, removed).master = c.master
<1> DEFINE w == c.commit + removed
           d == IdentityDeleted(c, certs, keys, removed)
           privateKeys == Without(c.privateKeys, keys)
           certificates == Without(c.certificates, certs)
<1>1. GoodFields(c.items, c.keyRecords, c.certificates, c.privateKeys,
                 c.certificateTable, c.password, c.master, c.commit)
  BY FieldsFromGood
<1>2. w \in Nat /\ c.commit =< w /\ w > c.commit
  BY <1>1 DEF GoodFields
<1>3. Bumped(c, removed) =
           [items |-> c.items, keyRecords |-> c.keyRecords,
            certificates |-> c.certificates, privateKeys |-> c.privateKeys,
            certificateTable |-> c.certificateTable, password |-> c.password,
            master |-> c.master, commit |-> w]
  BY BumpedFields DEF Good
<1>4. d = [items |-> c.items, keyRecords |-> c.keyRecords,
            certificates |-> certificates, privateKeys |-> privateKeys,
            certificateTable |-> c.certificateTable, password |-> c.password,
            master |-> c.master, commit |-> w]
  <2> DEFINE b == Bumped(c, removed)
  <2>1. d = [b EXCEPT !.certificates = Without(b.certificates, certs),
                      !.privateKeys = Without(b.privateKeys, keys)]
    BY Zenon DEF IdentityDeleted
  <2>2. b.certificates = c.certificates /\ b.privateKeys = c.privateKeys
    BY <1>3
  <2> HIDE DEF b
  <2>3. d = [b EXCEPT !.certificates = certificates, !.privateKeys = privateKeys]
    BY <2>1, <2>2, Zenon
  <2> HIDE DEF privateKeys, certificates
  <2>4. b = [items |-> c.items, keyRecords |-> c.keyRecords,
            certificates |-> c.certificates, privateKeys |-> c.privateKeys,
            certificateTable |-> c.certificateTable, password |-> c.password,
            master |-> c.master, commit |-> w]
    BY <1>3, Zenon DEF b
  <2> HIDE DEF d, w
  <2> QED
    BY <2>3, <2>4
<1> HIDE DEF w, d
<1>5. /\ Behind(c.items, w) /\ Behind(c.keyRecords, w)
      /\ Behind(c.certificates, w) /\ Behind(c.privateKeys, w)
  BY <1>2, AllBehind
<1>6. Behind(certificates, w) /\ Behind(privateKeys, w)
  BY <1>5, WithoutBehind
<1>7. IsTable(certificates, Certificate) /\ IsTable(privateKeys, PrivateKey)
  <2>1. IsTable(c.certificates, Certificate) /\ IsTable(c.privateKeys, PrivateKey)
    BY <1>1, Zenon DEF GoodFields
  <2> QED
    BY <2>1, WithoutIsTable
<1>8. certificates # EmptyTable => c.certificateTable
  <2>1. c.certificates # EmptyTable => c.certificateTable
    BY <1>1, Zenon DEF GoodFields
  <2>2. ASSUME c.certificates = EmptyTable PROVE certificates = EmptyTable
    BY <2>2 DEF EmptyTable, Without
  <2> QED
    BY <2>1, <2>2, Zenon
<1> HIDE DEF privateKeys, certificates
<1>9. GoodFields(c.items, c.keyRecords, certificates, privateKeys, c.certificateTable,
                 c.password, c.master, w)
  BY <1>1, <1>2, <1>5, <1>6, <1>7, <1>8, Zenon DEF GoodFields
<1>10. Good(d)
  BY <1>4, <1>9, GoodFromFields
<1>11. d.commit = w /\ d.master = c.master /\ d.keyRecords = c.keyRecords
  BY <1>4
<1> QED
  BY <1>2, <1>10, <1>11 DEF Later, d

(* The count of records that an identity's deletion removes is a number. *)
LEMMA NumbersCounted ==
  ASSUME NEW c, Good(c), NEW hash
  PROVE  /\ Cardinality(NumbersOf(c.certificates, hash)) \in Nat
         /\ Cardinality(NumbersOf(c.privateKeys, hash)) \in Nat
         /\ Cardinality({}) \in Nat
<1>1. IsTable(c.certificates, Certificate) /\ IsTable(c.privateKeys, PrivateKey)
  BY FieldsFromGood, Zenon DEF GoodFields
<1>2. /\ NumbersOf(c.certificates, hash) \subseteq Numbers
      /\ NumbersOf(c.privateKeys, hash) \subseteq Numbers
  BY <1>1 DEF IsTable, NumbersOf
<1> QED
  BY <1>2, FileAssumption, FS_Subset, FS_CardinalityType, FS_EmptySet

(* What a password change does to the copy. *)
Relocked(c, new) == [Bumped(c, 1) EXCEPT !.password = new]

(* A password change leaves the master key and the key records alone. *)
LEMMA RelockKeeps ==
  ASSUME NEW c, Good(c), NEW new \in Passwords
  PROVE  /\ Later(c, Relocked(c, new))
         /\ Relocked(c, new).keyRecords = c.keyRecords
         /\ Relocked(c, new).master = c.master
<1> DEFINE w == c.commit + 1
<1>1. GoodFields(c.items, c.keyRecords, c.certificates, c.privateKeys,
                 c.certificateTable, c.password, c.master, c.commit)
  BY FieldsFromGood
<1>2. w \in Nat /\ c.commit =< w /\ w > c.commit
  BY <1>1 DEF GoodFields
<1>3. Relocked(c, new) =
           [items |-> c.items, keyRecords |-> c.keyRecords,
            certificates |-> c.certificates, privateKeys |-> c.privateKeys,
            certificateTable |-> c.certificateTable, password |-> new,
            master |-> c.master, commit |-> w]
  BY BumpedFields DEF Good, Relocked
<1> HIDE DEF w
<1>4. GoodFields(c.items, c.keyRecords, c.certificates, c.privateKeys,
                 c.certificateTable, new, c.master, w)
  BY <1>1, <1>2, AllBehind, Zenon DEF GoodFields
<1>5. Good(Relocked(c, new))
  BY <1>3, <1>4, GoodFromFields
<1>6. /\ Relocked(c, new).commit = w /\ Relocked(c, new).master = c.master
      /\ Relocked(c, new).keyRecords = c.keyRecords
  BY <1>3
<1> QED
  BY <1>2, <1>5, <1>6 DEF Later

(* Under a file's master key every one of its key records opens. *)
LEMMA AllUnwrap ==
  ASSUME NEW c, Good(c)
  PROVE  UnwrapItemKeys(c, c.master) = LabelsIn(c.keyRecords)
  BY DEF Good, Opens, UnwrapItemKeys, LabelsIn

-----------------------------------------------------------------------------
(* The inductive invariant, handle by handle.                              *)

GoodHandle(h) ==
  /\ IsHandle(h)
  /\ Good(h.contents)
  /\ h.keys # None =>
       h.keys = h.contents.master /\ h.itemKeys = LabelsIn(h.contents.keyRecords)

Shape ==
  /\ phase \in [Processes -> {"idle", "open", "changed"}]
  /\ DOMAIN handle = Processes
  /\ reference \in Reference \union {None}
  /\ lost \in BOOLEAN
  /\ misdirected \in BOOLEAN

HandlesGood ==
  \A p \in Processes : IF phase[p] = "idle" THEN handle[p] = None ELSE GoodHandle(handle[p])

Ind == Shape /\ Good(disk) /\ HandlesGood /\ (~lost => History)

(* The invariant in the form that the proofs use. *)
LEMMA IndIsFileInv == Ind <=> FileInv
<1>1. ASSUME Ind PROVE FileInv
  <2>1. TypeOK
    BY <1>1, Zenon DEF Ind, Shape, HandlesGood, GoodHandle, Good, TypeOK
  <2>2. Sound(disk) /\ Opens(disk)
    BY <1>1, Zenon DEF Ind, Good
  <2>3. \A p \in Processes : Working(p) => HandleSound(handle[p])
    BY <1>1, Zenon DEF Ind, HandlesGood, GoodHandle, Good, Working, HandleSound
  <2> QED
    BY <1>1, <2>1, <2>2, <2>3, Zenon DEF Ind, FileInv
<1>2. ASSUME FileInv PROVE Ind
  <2>1. Shape /\ Good(disk)
    BY <1>2, Zenon DEF FileInv, TypeOK, Shape, Good
  <2>2. HandlesGood
    BY <1>2, Zenon DEF FileInv, TypeOK, HandlesGood, GoodHandle, HandleSound, IsHandle,
     Good, Working
  <2> QED
    BY <1>2, <2>1, <2>2, Zenon DEF FileInv, Ind
<1> QED
  BY <1>1, <1>2

(* A new keychain is good, and no process has it open. *)
LEMMA InitFile == Init => Ind
<1> SUFFICES ASSUME Init PROVE Ind
  OBVIOUS
<1>1. PICK password \in Passwords : disk = Created(password)
  BY Zenon DEF Init
<1>2. disk = [items |-> EmptyTable, keyRecords |-> EmptyTable,
              certificates |-> EmptyTable, privateKeys |-> EmptyTable,
              certificateTable |-> FALSE, password |-> password, master |-> 1, commit |-> 1]
  BY <1>1, Zenon DEF Created
<1>3. GoodFields(EmptyTable, EmptyTable, EmptyTable, EmptyTable, FALSE, password, 1, 1)
  <2>1. DOMAIN EmptyTable = {}
    BY DEF EmptyTable
  <2>2. /\ IsTable(EmptyTable, Item) /\ IsTable(EmptyTable, KeyRecord)
        /\ IsTable(EmptyTable, Certificate) /\ IsTable(EmptyTable, PrivateKey)
    BY <2>1 DEF IsTable
  <2>3. /\ Matched(EmptyTable, EmptyTable) /\ Unique(EmptyTable) /\ Under(EmptyTable, 1)
        /\ Behind(EmptyTable, 1)
    BY <2>1 DEF Matched, Unique, Under, Behind
  <2>4. FALSE \in BOOLEAN /\ 1 \in Nat
    OBVIOUS
  <2> QED
    BY <1>1, <2>2, <2>3, <2>4, Zenon DEF GoodFields
<1>4. Good(disk)
  BY <1>2, <1>3, GoodFromFields
<1>5. /\ phase = [p \in Processes |-> "idle"] /\ handle = [p \in Processes |-> None]
      /\ reference = None /\ lost = FALSE /\ misdirected = FALSE
  BY Zenon DEF Init
<1>6. Shape /\ HandlesGood
  BY <1>5 DEF Shape, HandlesGood
<1>7. History
  BY <1>5 DEF History, Unmoved
<1> QED
  BY <1>4, <1>6, <1>7 DEF Ind

(* The fields of a handle, and the commit version of what it holds. *)
LEMMA HandleFacts ==
  ASSUME Ind, NEW p \in Processes, Working(p)
  PROVE  /\ GoodHandle(handle[p]) /\ Good(handle[p].contents)
         /\ handle[p].contents.commit \in Nat /\ handle[p].current \in BOOLEAN
         /\ handle[p] = [contents |-> handle[p].contents, keys |-> handle[p].keys,
                         itemKeys |-> handle[p].itemKeys, current |-> handle[p].current]
  BY Zenon DEF Ind, HandlesGood, Working, GoodHandle, IsHandle, Good, IsContents

(* A process's copy becomes a later one. *)
LEMMA ChangeStep ==
  ASSUME Ind, NEW p \in Processes, Working(p),
         NEW d, Later(handle[p].contents, d),
         NEW k \in Nat \union {None}, NEW itemKeys \in SUBSET Labels,
         k # None => k = d.master /\ itemKeys = LabelsIn(d.keyRecords),
         phase' = [phase EXCEPT ![p] = "changed"],
         handle' = [handle EXCEPT ![p] = [contents |-> d, keys |-> k, itemKeys |-> itemKeys,
                                          current |-> handle[p].current]],
         disk' = disk, reference' = reference, lost' = lost,
         misdirected' \in BOOLEAN, ~lost => ~misdirected'
  PROVE  Ind'
<1> DEFINE h == [contents |-> d, keys |-> k, itemKeys |-> itemKeys,
                 current |-> handle[p].current]
<1>1. handle[p].current \in BOOLEAN /\ handle[p].contents.commit \in Nat
  BY HandleFacts
<1>2. /\ h.contents = d /\ h.keys = k /\ h.itemKeys = itemKeys /\ h.current = handle[p].current
      /\ h = [contents |-> h.contents, keys |-> h.keys, itemKeys |-> h.itemKeys,
              current |-> h.current]
  OBVIOUS
<1> HIDE DEF h
<1>3. GoodHandle(h)
  <2>1. IsHandle(h)
    <3>1. itemKeys \subseteq Labels
      OBVIOUS
    <3> QED
      BY <1>1, <1>2, <3>1, Zenon DEF IsHandle, Later, Good
  <2>2. Good(h.contents)
    BY <1>2, Zenon DEF Later
  <2> QED
    BY <1>2, <2>1, <2>2, Zenon DEF GoodHandle
<1>4. Shape
  BY Zenon DEF Ind
<1>5. /\ phase'[p] = "changed" /\ handle'[p] = h
      /\ \A q \in Processes : q # p => phase'[q] = phase[q] /\ handle'[q] = handle[q]
  BY <1>4 DEF Shape, h
<1>6. Shape'
  BY <1>4 DEF Shape
<1>7. HandlesGood'
  <2> SUFFICES ASSUME NEW q \in Processes
               PROVE  IF phase'[q] = "idle" THEN handle'[q] = None ELSE GoodHandle(handle'[q])
    BY Zenon DEF HandlesGood
  <2>1. CASE q = p
    BY <1>3, <1>5, <2>1
  <2>2. CASE q # p
    BY <1>5, <2>2, Zenon DEF Ind, HandlesGood
  <2> QED
    BY <2>1, <2>2
<1>8. Good(disk)'
  BY Zenon DEF Ind
<1>9. ASSUME ~lost PROVE History'
  <2>1. History
    BY <1>9, Zenon DEF Ind
  <2>2. \A q \in Processes : Unmoved(q)' => Unmoved(q) /\ handle'[q] = handle[q]
    BY <1>5 DEF Unmoved
  <2>3. \A q \in Processes : phase'[q] = "changed" /\ handle'[q].current =>
          handle'[q].contents.commit > disk.commit
    <3> SUFFICES ASSUME NEW q \in Processes, phase'[q] = "changed", handle'[q].current
                 PROVE  handle'[q].contents.commit > disk.commit
      OBVIOUS
    <3>1. CASE q # p
      BY <1>5, <2>1, <3>1 DEF History
    <3>2. CASE q = p
      <4>1. handle[p].current /\ h.contents = d
        BY <1>2, <1>5, <3>2
      <4>2. disk.commit \in Nat /\ d.commit \in Nat /\ d.commit > handle[p].contents.commit
        BY Zenon DEF Ind, Good, IsContents, Later
      <4>3. phase[p] \in {"open", "changed"}
        BY <1>4 DEF Shape, Working
      <4>4. handle[p].contents.commit >= disk.commit
        BY <1>1, <2>1, <4>1, <4>2, <4>3 DEF History, Unmoved
      <4> QED
        BY <1>1, <1>2, <1>5, <3>2, <4>2, <4>4
    <3> QED
      BY <3>1, <3>2
  <2>4. ~misdirected'
    BY <1>9
  <2>5. \A q \in Processes : Unmoved(q)' =>
          /\ handle'[q].contents.commit =< disk'.commit
          /\ handle'[q].contents.commit = disk'.commit => handle'[q].contents = disk'
    BY <2>1, <2>2 DEF History
  <2>6. \A q, r \in Processes :
          Unmoved(q)' /\ Unmoved(r)' /\ handle'[q].contents.commit = handle'[r].contents.commit
            => handle'[q].contents = handle'[r].contents
    BY <2>1, <2>2 DEF History
  <2>7. \A q \in Processes : Unmoved(q)' /\ handle'[q].current => handle'[q].contents = disk'
    BY <2>1, <2>2 DEF History
  <2>8. reference' # None =>
       /\ reference'.commit =< disk'.commit
       /\ Leads(disk', reference')
       /\ \A q \in Processes : Unmoved(q)' => Leads(handle'[q].contents, reference')
    BY <2>1, <2>2 DEF History
  <2> QED
    BY <2>3, <2>4, <2>5, <2>6, <2>7, <2>8 DEF History
<1> QED
  BY <1>6, <1>7, <1>8, <1>9 DEF Ind

(* The same for an operation that leaves the handle's database keys alone. *)
LEMMA ChangeKeeps ==
  ASSUME Ind, NEW p \in Processes, Working(p),
         NEW d, Later(handle[p].contents, d), d.master = handle[p].contents.master,
         NEW itemKeys \in SUBSET Labels,
         handle[p].keys # None => itemKeys = LabelsIn(d.keyRecords),
         Change(p, d, itemKeys),
         disk' = disk, reference' = reference, lost' = lost,
         misdirected' \in BOOLEAN, ~lost => ~misdirected'
  PROVE  Ind'
<1> DEFINE k == handle[p].keys
<1>1. GoodHandle(handle[p]) /\ DOMAIN handle = Processes
  BY HandleFacts, Zenon DEF Ind, Shape
<1>2. /\ k \in Nat \union {None}
      /\ k # None => k = handle[p].contents.master
  BY <1>1, Zenon DEF GoodHandle, IsHandle
<1>3. phase' = [phase EXCEPT ![p] = "changed"]
      /\ handle' = [handle EXCEPT ![p].contents = d, ![p].itemKeys = itemKeys]
  BY Zenon DEF Change
<1>4. handle' = [handle EXCEPT ![p] = [contents |-> d, keys |-> k, itemKeys |-> itemKeys,
                                       current |-> handle[p].current]]
  <2> DEFINE h == handle[p]
             c == h.contents
             i == h.itemKeys
             u == h.current
  <2>1. h = [contents |-> c, keys |-> k, itemKeys |-> i, current |-> u]
    BY HandleFacts
  <2> HIDE DEF h, c, i, u, k
  <2>2. [h EXCEPT !.contents = d, !.itemKeys = itemKeys]
          = [contents |-> d, keys |-> k, itemKeys |-> itemKeys, current |-> u]
    <3> DEFINE g == [h EXCEPT !.contents = d]
    <3>1. g = [contents |-> d, keys |-> k, itemKeys |-> i, current |-> u]
      BY <2>1
    <3>2. [h EXCEPT !.contents = d, !.itemKeys = itemKeys] = [g EXCEPT !.itemKeys = itemKeys]
      OBVIOUS
    <3> HIDE DEF g
    <3>3. [g EXCEPT !.itemKeys = itemKeys]
            = [contents |-> d, keys |-> k, itemKeys |-> itemKeys, current |-> u]
      BY <3>1
    <3> QED
      BY <3>2, <3>3, Zenon
  <2>3. handle' = [handle EXCEPT ![p] = [h EXCEPT !.contents = d, !.itemKeys = itemKeys]]
    BY <1>1, <1>3 DEF h
  <2> QED
    BY <2>2, <2>3 DEF h, u
<1> HIDE DEF k
<1>5. k # None => k = d.master /\ itemKeys = LabelsIn(d.keyRecords)
  BY <1>2 DEF k
<1> QED
  BY <1>2, <1>3, <1>4, <1>5, ChangeStep

(* The item keys of a handle are labels, and when unlocked those of its file. *)
LEMMA ItemKeys ==
  ASSUME Ind, NEW p \in Processes, Working(p)
  PROVE  /\ handle[p].itemKeys \in SUBSET Labels
         /\ handle[p].keys # None =>
              /\ handle[p].keys = handle[p].contents.master
              /\ handle[p].itemKeys = LabelsIn(handle[p].contents.keyRecords)
  BY HandleFacts, Zenon DEF GoodHandle, IsHandle

(* The history variables are left alone. *)
LEMMA Undirected ==
  ASSUME Ind, misdirected' = misdirected
  PROVE  misdirected' \in BOOLEAN /\ (~lost => ~misdirected')
  BY Zenon DEF Ind, Shape, History

(* Adding a password keeps the invariant. *)
LEMMA AddStep ==
  ASSUME Ind, NEW p \in Processes, NEW id \in Ids, AddPassword(p, id)
  PROVE  Ind'
<1> DEFINE c == handle[p].contents
           b == Bumped(c, 1)
<1>1. Working(p) /\ handle[p].keys # None
      /\ disk' = disk /\ reference' = reference /\ lost' = lost /\ misdirected' = misdirected
      /\ \A n \in DOMAIN c.items : c.items[n].id # id
  BY Zenon DEF AddPassword
<1>2. PICK n \in Numbers \ DOMAIN c.items, k \in Numbers \ DOMAIN c.keyRecords,
           label \in Labels \ LabelsInUse :
        Change(p,
          [b EXCEPT
             !.keyRecords = With(@, k, [label |-> label, under |-> handle[p].keys,
                                        version |-> b.commit]),
             !.items = With(@, n, [id |-> id, label |-> label, version |-> b.commit])],
          handle[p].itemKeys \union {label})
  BY Zenon DEF AddPassword
<1>3. handle[p].keys = c.master /\ handle[p].itemKeys = LabelsIn(c.keyRecords)
      /\ handle[p].itemKeys \in SUBSET Labels
  BY <1>1, ItemKeys
<1>4. Change(p, Added(c, id, n, k, label), handle[p].itemKeys \union {label})
  BY <1>2, <1>3, Zenon DEF Added
<1>5. label \in Labels \ LabelsIn(c.items)
  BY <1>1, <1>2 DEF LabelsInUse
<1>6. Good(c)
  BY <1>1, HandleFacts
<1> HIDE DEF c, b
<1>7. /\ Later(c, Added(c, id, n, k, label))
      /\ Added(c, id, n, k, label).master = c.master
      /\ LabelsIn(Added(c, id, n, k, label).keyRecords) = LabelsIn(c.keyRecords) \union {label}
  BY <1>1, <1>5, <1>6, AddKeeps
<1>8. misdirected' \in BOOLEAN /\ (~lost => ~misdirected')
  BY <1>1, Undirected
<1>9. handle[p].itemKeys \union {label} \in SUBSET Labels
  BY <1>3, <1>5
<1> QED
  BY <1>1, <1>3, <1>4, <1>7, <1>8, <1>9, ChangeKeeps DEF c

(* Updating an item keeps the invariant. *)
LEMMA UpdateStep ==
  ASSUME Ind, NEW p \in Processes, NEW n \in Numbers, NEW secret \in BOOLEAN,
         UpdateItem(p, n, secret)
  PROVE  Ind'
<1> DEFINE c == handle[p].contents
<1>1. Working(p) /\ n \in DOMAIN c.items /\ Change(p, Updated(c, n), handle[p].itemKeys)
      /\ disk' = disk /\ reference' = reference /\ lost' = lost /\ misdirected' = misdirected
  BY Zenon DEF UpdateItem
<1>2. Good(c)
  BY <1>1, HandleFacts
<1>3. /\ Later(c, Updated(c, n)) /\ Updated(c, n).keyRecords = c.keyRecords
      /\ Updated(c, n).master = c.master
  BY <1>1, <1>2, UpdateKeeps
<1> QED
  BY <1>1, <1>3, ItemKeys, Undirected, ChangeKeeps

(* Updating through a reference keeps the invariant, and finds its item. *)
LEMMA ReferenceStep ==
  ASSUME Ind, NEW p \in Processes, NEW secret \in BOOLEAN, SetByReference(p, secret)
  PROVE  Ind'
<1> DEFINE c == handle[p].contents
           n == reference.number
<1>1. /\ phase[p] = "open" /\ reference # None /\ Resolves(c, reference)
      /\ Change(p, Updated(c, n), handle[p].itemKeys)
      /\ misdirected' = (misdirected \/ c.items[n].label # reference.label)
      /\ disk' = disk /\ reference' = reference /\ lost' = lost
  BY Zenon DEF SetByReference
<1>2. Working(p) /\ Unmoved(p) /\ n \in DOMAIN c.items /\ c.commit = reference.commit
  BY <1>1 DEF Working, Unmoved, Resolves
<1>3. Good(c)
  BY <1>2, HandleFacts
<1>4. /\ Later(c, Updated(c, n)) /\ Updated(c, n).keyRecords = c.keyRecords
      /\ Updated(c, n).master = c.master
  BY <1>2, <1>3, UpdateKeeps
<1>5. misdirected' \in BOOLEAN
  BY <1>1
<1>6. ASSUME ~lost PROVE ~misdirected'
  <2>1. ~misdirected /\ Leads(c, reference)
    BY <1>1, <1>2, <1>6, Zenon DEF Ind, History
  <2>2. c.items[n].label = reference.label
    BY <1>2, <2>1, Zenon DEF Leads
  <2> QED
    BY <1>1, <2>1, <2>2
<1> HIDE DEF n
<1> QED
  BY <1>1, <1>2, <1>4, <1>5, <1>6, ItemKeys, ChangeKeeps

(* Deleting an item keeps the invariant. *)
LEMMA DeleteStep ==
  ASSUME Ind, NEW p \in Processes, NEW n \in Numbers, DeleteItem(p, n)
  PROVE  Ind'
<1> DEFINE c == handle[p].contents
           keyNumbers == KeyNumbers(c, c.items[n].label)
<1>1. Working(p) /\ n \in DOMAIN c.items
      /\ disk' = disk /\ reference' = reference /\ lost' = lost /\ misdirected' = misdirected
  BY Zenon DEF DeleteItem
<1>2. Good(c)
  BY <1>1, HandleFacts
<1>3. keyNumbers # {}
  <2>1. Matched(c.items, c.keyRecords)
    BY <1>2, FieldsFromGood, Zenon DEF GoodFields
  <2>2. \E k \in DOMAIN c.keyRecords : c.keyRecords[k].label = c.items[n].label
    BY <1>1, <2>1 DEF Matched
  <2> QED
    BY <2>2 DEF KeyNumbers
<1>4. PICK found \in {{k} : k \in keyNumbers} \union (IF keyNumbers = {} THEN {{}} ELSE {}) :
        Change(p,
          [Bumped(c, IF found = {} THEN 1 ELSE 2) EXCEPT
             !.items = Without(@, {n}),
             !.keyRecords = Without(@, found)],
          handle[p].itemKeys \ {c.items[n].label})
  BY Zenon DEF DeleteItem
<1>5. PICK k \in keyNumbers : found = {k}
  BY <1>3, <1>4
<1>6. (IF found = {} THEN 1 ELSE 2) = 2
  BY <1>5
<1>7. Change(p, Deleted(c, n, k), handle[p].itemKeys \ {c.items[n].label})
  BY <1>4, <1>5, <1>6, Zenon DEF Deleted
<1>8. k \in DOMAIN c.keyRecords /\ c.keyRecords[k].label = c.items[n].label
  BY <1>5 DEF KeyNumbers
<1> HIDE DEF c, keyNumbers
<1>9. /\ Later(c, Deleted(c, n, k))
      /\ Deleted(c, n, k).master = c.master
      /\ LabelsIn(Deleted(c, n, k).keyRecords) = LabelsIn(c.keyRecords) \ {c.items[n].label}
  BY <1>1, <1>2, <1>8, DeleteKeeps
<1>10. /\ handle[p].itemKeys \in SUBSET Labels
       /\ handle[p].keys # None => handle[p].itemKeys = LabelsIn(c.keyRecords)
  BY <1>1, ItemKeys DEF c
<1>11. handle[p].itemKeys \ {c.items[n].label} \in SUBSET Labels
  BY <1>10
<1>12. misdirected' \in BOOLEAN /\ (~lost => ~misdirected')
  BY <1>1, Undirected
<1> QED
  BY <1>1, <1>7, <1>9, <1>10, <1>11, <1>12, ChangeKeeps DEF c

(* Access lists and settings take a commit version and nothing else. *)
LEMMA CommitStep ==
  ASSUME Ind, NEW p \in Processes, Working(p),
         Change(p, Bumped(handle[p].contents, 1), handle[p].itemKeys),
         UNCHANGED <<disk, reference, lost, misdirected>>
  PROVE  Ind'
<1> DEFINE c == handle[p].contents
<1>1. Good(c)
  BY HandleFacts
<1>2. 1 \in Nat \ {0}
  OBVIOUS
<1>3. /\ Later(c, Bumped(c, 1)) /\ Bumped(c, 1).keyRecords = c.keyRecords
      /\ Bumped(c, 1).master = c.master
  BY <1>1, <1>2, BumpKeeps
<1>4. disk' = disk /\ reference' = reference /\ lost' = lost /\ misdirected' = misdirected
  OBVIOUS
<1> QED
  BY <1>3, <1>4, ItemKeys, Undirected, ChangeKeeps

(* Changing the access to an item or a private key keeps the invariant. *)
LEMMA AccessStep ==
  ASSUME Ind, NEW p \in Processes, NEW n \in Numbers,
         SetItemAccess(p, n) \/ SetPrivateKeyAccess(p, n)
  PROVE  Ind'
<1>1. /\ Working(p)
      /\ Change(p, Bumped(handle[p].contents, 1), handle[p].itemKeys)
      /\ UNCHANGED <<disk, reference, lost, misdirected>>
  BY Zenon DEF SetItemAccess, SetPrivateKeyAccess
<1> QED
  BY <1>1, CommitStep

(* Changing the settings keeps the invariant. *)
LEMMA SettingsStep ==
  ASSUME Ind, NEW p \in Processes, SetSettings(p)
  PROVE  Ind'
<1>1. /\ Working(p)
      /\ Change(p, Bumped(handle[p].contents, 1), handle[p].itemKeys)
      /\ UNCHANGED <<disk, reference, lost, misdirected>>
  BY Zenon DEF SetSettings
<1> QED
  BY <1>1, CommitStep

(* Adding an identity keeps the invariant. *)
LEMMA AddIdentityStep ==
  ASSUME Ind, NEW p \in Processes, NEW hash \in Hashes, AddIdentity(p, hash)
  PROVE  Ind'
<1> DEFINE c == handle[p].contents
           b == Bumped(c, 1)
<1>1. Working(p)
      /\ disk' = disk /\ reference' = reference /\ lost' = lost /\ misdirected' = misdirected
  BY Zenon DEF AddIdentity
<1>2. PICK n \in Numbers \ DOMAIN c.certificates, k \in Numbers \ DOMAIN c.privateKeys :
        Change(p,
          [b EXCEPT
             !.certificateTable = TRUE,
             !.privateKeys = With(@, k, [hash |-> hash, version |-> b.commit]),
             !.certificates = With(@, n, [hash |-> hash, version |-> b.commit])],
          handle[p].itemKeys)
  BY Zenon DEF AddIdentity
<1>3. Change(p, IdentityAdded(c, hash, n, k), handle[p].itemKeys)
  BY <1>2, Zenon DEF IdentityAdded
<1>4. Good(c) /\ n \in Numbers /\ k \in Numbers
  BY <1>1, <1>2, HandleFacts
<1>5. /\ Later(c, IdentityAdded(c, hash, n, k))
      /\ IdentityAdded(c, hash, n, k).keyRecords = c.keyRecords
      /\ IdentityAdded(c, hash, n, k).master = c.master
  BY <1>4, AddIdentityKeeps
<1> QED
  BY <1>1, <1>3, <1>5, ItemKeys, Undirected, ChangeKeeps

(* Deleting an identity keeps the invariant. *)
LEMMA DeleteIdentityStep ==
  ASSUME Ind, NEW p \in Processes, NEW hash \in Hashes, NEW includeKeys \in BOOLEAN,
         DeleteIdentity(p, hash, includeKeys)
  PROVE  Ind'
<1> DEFINE c == handle[p].contents
           certificates == NumbersOf(c.certificates, hash)
           keys == IF includeKeys THEN NumbersOf(c.privateKeys, hash) ELSE {}
           removed == Cardinality(certificates) + Cardinality(keys)
<1>1. Working(p) /\ removed > 0
      /\ Change(p, IdentityDeleted(c, certificates, keys, removed), handle[p].itemKeys)
      /\ disk' = disk /\ reference' = reference /\ lost' = lost /\ misdirected' = misdirected
  BY Zenon DEF DeleteIdentity, IdentityDeleted
<1>2. Good(c)
  BY <1>1, HandleFacts
<1>3. removed \in Nat \ {0}
  <2>1. Cardinality(certificates) \in Nat
    BY <1>2, NumbersCounted
  <2>2. Cardinality(keys) \in Nat
    BY <1>2, NumbersCounted
  <2> QED
    BY <1>1, <2>1, <2>2
<1> HIDE DEF certificates, keys, removed
<1>4. /\ Later(c, IdentityDeleted(c, certificates, keys, removed))
      /\ IdentityDeleted(c, certificates, keys, removed).keyRecords = c.keyRecords
      /\ IdentityDeleted(c, certificates, keys, removed).master = c.master
  BY <1>2, <1>3, DeleteIdentityKeeps
<1> QED
  BY <1>1, <1>4, ItemKeys, Undirected, ChangeKeeps

(* Changing the password keeps the invariant. *)
LEMMA PasswordStep ==
  ASSUME Ind, NEW p \in Processes, NEW old \in Passwords, NEW new \in Passwords,
         ChangePassword(p, old, new)
  PROVE  Ind'
<1> DEFINE c == handle[p].contents
           d == Relocked(c, new)
<1>1. /\ Working(p) /\ Resealed(p, d)
      /\ disk' = disk /\ reference' = reference /\ lost' = lost /\ misdirected' = misdirected
  BY Zenon DEF ChangePassword, Relocked
<1>2. Good(c)
  BY <1>1, HandleFacts
<1>3. Later(c, d) /\ d.keyRecords = c.keyRecords /\ d.master = c.master
  BY <1>2, RelockKeeps
<1>4. UnwrapItemKeys(d, d.master) = LabelsIn(d.keyRecords)
  BY <1>3, AllUnwrap DEF Later
<1>5. d.master \in Nat \union {None} /\ LabelsIn(d.keyRecords) \in SUBSET Labels
  <2>1. IsTable(d.keyRecords, KeyRecord) /\ d.master \in Nat
    BY <1>3, Zenon DEF Later, Good, IsContents
  <2> QED
    BY <2>1, Fields DEF IsTable, LabelsIn
<1> HIDE DEF d
<1>6. phase' = [phase EXCEPT ![p] = "changed"]
      /\ handle' = [handle EXCEPT ![p].contents = d, ![p].keys = d.master,
                                  ![p].itemKeys = UnwrapItemKeys(d, d.master)]
  BY <1>1, Zenon DEF Resealed
<1>7. handle' = [handle EXCEPT ![p] = [contents |-> d, keys |-> d.master,
                                       itemKeys |-> LabelsIn(d.keyRecords),
                                       current |-> handle[p].current]]
  <2> DEFINE h == handle[p]
             m == d.master
             j == LabelsIn(d.keyRecords)
             k == h.keys
             i == h.itemKeys
             u == h.current
             hc == h.contents
  <2>1. h = [contents |-> hc, keys |-> k, itemKeys |-> i, current |-> u]
    BY <1>1, HandleFacts
  <2>2. DOMAIN handle = Processes
    BY Zenon DEF Ind, Shape
  <2>3. handle' = [handle EXCEPT ![p] = [h EXCEPT !.contents = d, !.keys = m, !.itemKeys = j]]
    BY <1>4, <1>6, <2>2
  <2> HIDE DEF h, hc, i, u, k, m, j
  <2>4. [h EXCEPT !.contents = d, !.keys = m, !.itemKeys = j]
          = [contents |-> d, keys |-> m, itemKeys |-> j, current |-> u]
    <3> DEFINE f == [h EXCEPT !.contents = d]
               g == [f EXCEPT !.keys = m]
    <3>1. [h EXCEPT !.contents = d, !.keys = m, !.itemKeys = j] = [g EXCEPT !.itemKeys = j]
      OBVIOUS
    <3>2. f = [contents |-> d, keys |-> k, itemKeys |-> i, current |-> u]
      BY <2>1
    <3> HIDE DEF f
    <3>3. g = [contents |-> d, keys |-> m, itemKeys |-> i, current |-> u]
      BY <3>2
    <3> HIDE DEF g
    <3>4. [g EXCEPT !.itemKeys = j] = [contents |-> d, keys |-> m, itemKeys |-> j, current |-> u]
      BY <3>3
    <3> QED
      BY <3>1, <3>4, Zenon
  <2> QED
    BY <2>3, <2>4 DEF h, u, m, j
<1>8. misdirected' \in BOOLEAN /\ (~lost => ~misdirected')
  BY <1>1, Undirected
<1> QED
  BY <1>1, <1>3, <1>5, <1>6, <1>7, <1>8, ChangeStep

(* Opening the file keeps the invariant. *)
LEMMA OpenStep ==
  ASSUME Ind, NEW p \in Processes, Open(p)
  PROVE  Ind'
<1> DEFINE h == [contents |-> disk, keys |-> None, itemKeys |-> {}, current |-> TRUE]
<1>1. /\ phase' = [phase EXCEPT ![p] = "open"] /\ handle' = [handle EXCEPT ![p] = h]
      /\ disk' = disk /\ reference' = reference /\ lost' = lost /\ misdirected' = misdirected
  BY Zenon DEF Open
<1>2. /\ h.contents = disk /\ h.keys = None /\ h.itemKeys = {} /\ h.current = TRUE
      /\ h = [contents |-> h.contents, keys |-> h.keys, itemKeys |-> h.itemKeys,
              current |-> h.current]
  OBVIOUS
<1> HIDE DEF h
<1>3. Shape /\ Good(disk) /\ HandlesGood
  BY Zenon DEF Ind
<1>4. GoodHandle(h)
  <2>1. h.keys \in Nat \union {None} /\ h.itemKeys \subseteq Labels /\ h.current \in BOOLEAN
    BY <1>2
  <2> QED
    BY <1>2, <1>3, <2>1, Zenon DEF GoodHandle, IsHandle, Good
<1>5. /\ phase'[p] = "open" /\ handle'[p] = h
      /\ \A q \in Processes : q # p => phase'[q] = phase[q] /\ handle'[q] = handle[q]
  BY <1>1, <1>3 DEF Shape
<1>6. Shape'
  BY <1>1, <1>3 DEF Shape
<1>7. HandlesGood'
  <2> SUFFICES ASSUME NEW q \in Processes
               PROVE  IF phase'[q] = "idle" THEN handle'[q] = None ELSE GoodHandle(handle'[q])
    BY Zenon DEF HandlesGood
  <2>1. CASE q = p
    BY <1>4, <1>5, <2>1
  <2>2. CASE q # p
    BY <1>3, <1>5, <2>2, Zenon DEF HandlesGood
  <2> QED
    BY <2>1, <2>2
<1>8. ASSUME ~lost PROVE History'
  <2>1. History /\ disk.commit \in Nat
    BY <1>8, Zenon DEF Ind, Good, IsContents
  <2>2. \A q \in Processes : phase'[q] = "changed" => q # p
    BY <1>5
  <2>3. \A q \in Processes : Unmoved(q)' => (q = p /\ handle'[q].contents = disk)
                                            \/ (q # p /\ Unmoved(q) /\ handle'[q] = handle[q])
    BY <1>2, <1>5 DEF Unmoved
  <2>4. \A q \in Processes : phase'[q] = "changed" /\ handle'[q].current =>
          handle'[q].contents.commit > disk.commit
    BY <1>5, <2>1, <2>2 DEF History
  <2>5. \A q \in Processes : Unmoved(q)' =>
          /\ handle'[q].contents.commit =< disk'.commit
          /\ handle'[q].contents.commit = disk'.commit => handle'[q].contents = disk'
    BY <1>1, <2>1, <2>3 DEF History
  <2>6. \A q, r \in Processes :
          Unmoved(q)' /\ Unmoved(r)' /\ handle'[q].contents.commit = handle'[r].contents.commit
            => handle'[q].contents = handle'[r].contents
    BY <2>1, <2>3 DEF History
  <2>7. \A q \in Processes : Unmoved(q)' /\ handle'[q].current => handle'[q].contents = disk'
    BY <1>1, <2>1, <2>3 DEF History
  <2>8. reference' # None =>
       /\ reference'.commit =< disk'.commit
       /\ Leads(disk', reference')
       /\ \A q \in Processes : Unmoved(q)' => Leads(handle'[q].contents, reference')
    BY <1>1, <2>1, <2>3 DEF History
  <2>9. ~misdirected'
    BY <1>1, <2>1 DEF History
  <2> QED
    BY <1>1, <2>4, <2>5, <2>6, <2>7, <2>8, <2>9 DEF History
<1> QED
  BY <1>1, <1>3, <1>6, <1>7, <1>8 DEF Ind

(* Leaving without a save keeps the invariant. *)
LEMMA ExitStep ==
  ASSUME Ind, NEW p \in Processes, Exit(p)
  PROVE  Ind'
<1>1. /\ phase' = [phase EXCEPT ![p] = "idle"] /\ handle' = [handle EXCEPT ![p] = None]
      /\ disk' = disk /\ reference' = reference /\ lost' = lost /\ misdirected' = misdirected
  BY Zenon DEF Exit
<1>2. Shape /\ Good(disk) /\ HandlesGood
  BY Zenon DEF Ind
<1>3. /\ phase'[p] = "idle" /\ handle'[p] = None
      /\ \A q \in Processes : q # p => phase'[q] = phase[q] /\ handle'[q] = handle[q]
  BY <1>1, <1>2 DEF Shape
<1>4. Shape'
  BY <1>1, <1>2 DEF Shape
<1>5. HandlesGood'
  BY <1>2, <1>3, Zenon DEF HandlesGood
<1>6. ASSUME ~lost PROVE History'
  <2>1. History
    BY <1>6, Zenon DEF Ind
  <2>2. \A q \in Processes : phase'[q] # "idle" => phase'[q] = phase[q] /\ handle'[q] = handle[q]
    BY <1>3
  <2> QED
    BY <1>1, <2>1, <2>2 DEF History, Unmoved
<1> QED
  BY <1>1, <1>2, <1>4, <1>5, <1>6 DEF Ind

(* A reference is made from a copy that nothing has changed. *)
LEMMA MakeReferenceStep ==
  ASSUME Ind, NEW p \in Processes, NEW n \in Numbers, MakeReference(p, n)
  PROVE  Ind'
<1> DEFINE c == handle[p].contents
           r == [commit |-> c.commit, number |-> n, label |-> c.items[n].label]
<1>1. /\ phase[p] = "open" /\ n \in DOMAIN c.items /\ reference' = r
      /\ disk' = disk /\ phase' = phase /\ handle' = handle /\ lost' = lost
      /\ misdirected' = misdirected
  BY Zenon DEF MakeReference
<1>2. Working(p) /\ Unmoved(p)
  BY <1>1 DEF Working, Unmoved
<1>3. Good(c)
  BY <1>2, HandleFacts
<1>4. r \in Reference
  <2>1. IsTable(c.items, Item) /\ c.commit \in Nat
    BY <1>3, Zenon DEF Good, IsContents
  <2>2. c.items[n].label \in Labels
    BY <1>1, <2>1, Fields DEF IsTable
  <2> QED
    BY <2>1, <2>2 DEF Reference
<1>5. r.commit = c.commit /\ r.number = n /\ r.label = c.items[n].label
  OBVIOUS
<1> HIDE DEF r
<1>6. Shape'
  BY <1>1, <1>4, Zenon DEF Ind, Shape
<1>7. Good(disk)' /\ HandlesGood'
  BY <1>1, Zenon DEF Ind, HandlesGood
<1>8. ASSUME ~lost PROVE History'
  <2>1. History
    BY <1>8, Zenon DEF Ind
  <2>2. c.commit =< disk.commit /\ (c.commit = disk.commit => c = disk)
    BY <1>2, <2>1 DEF History
  <2>3. Leads(disk, r)
    BY <1>5, <2>2 DEF Leads
  <2>4. \A q \in Processes : Unmoved(q) => Leads(handle[q].contents, r)
    BY <1>2, <1>5, <2>1 DEF History, Leads
  <2>5. r.commit =< disk.commit
    BY <1>5, <2>2
  <2>6. \A q \in Processes : Unmoved(q)' <=> Unmoved(q)
    BY <1>1 DEF Unmoved
  <2> HIDE DEF c
  <2> QED
    BY <1>1, <2>1, <2>3, <2>4, <2>5, <2>6 DEF History
<1> QED
  BY <1>1, <1>6, <1>7, <1>8 DEF Ind

(* Unlocking keeps the invariant. *)
LEMMA UnlockStep ==
  ASSUME Ind, NEW p \in Processes, NEW password \in Passwords, Unlock(p, password)
  PROVE  Ind'
<1> DEFINE c == handle[p].contents
           h == [contents |-> c, keys |-> c.master, itemKeys |-> LabelsIn(c.keyRecords),
                 current |-> handle[p].current]
<1>1. /\ Working(p)
      /\ handle' = [handle EXCEPT ![p].keys = c.master, ![p].itemKeys = UnwrapItemKeys(c, c.master)]
      /\ disk' = disk /\ phase' = phase /\ reference' = reference /\ lost' = lost
      /\ misdirected' = misdirected
  BY Zenon DEF Unlock
<1>2. Good(c) /\ handle[p].current \in BOOLEAN
  BY <1>1, HandleFacts
<1>3. UnwrapItemKeys(c, c.master) = LabelsIn(c.keyRecords)
  BY <1>2, AllUnwrap
<1>4. handle' = [handle EXCEPT ![p] = h]
  <2> DEFINE g == handle[p]
             m == c.master
             j == LabelsIn(c.keyRecords)
             k == g.keys
             i == g.itemKeys
             u == g.current
             d == g.contents
  <2>1. g = [contents |-> d, keys |-> k, itemKeys |-> i, current |-> u]
    BY <1>1, HandleFacts
  <2>2. DOMAIN handle = Processes
    BY Zenon DEF Ind, Shape
  <2>3. handle' = [handle EXCEPT ![p] = [g EXCEPT !.keys = m, !.itemKeys = j]]
    BY <1>1, <1>3, <2>2
  <2>4. h = [contents |-> d, keys |-> m, itemKeys |-> j, current |-> u]
    OBVIOUS
  <2> HIDE DEF g, i, u, k, m, j, d, h
  <2>5. [g EXCEPT !.keys = m, !.itemKeys = j]
          = [contents |-> d, keys |-> m, itemKeys |-> j, current |-> u]
    <3> DEFINE f == [g EXCEPT !.keys = m]
    <3>1. [g EXCEPT !.keys = m, !.itemKeys = j] = [f EXCEPT !.itemKeys = j]
      OBVIOUS
    <3>2. f = [contents |-> d, keys |-> m, itemKeys |-> i, current |-> u]
      BY <2>1
    <3> HIDE DEF f
    <3>3. [f EXCEPT !.itemKeys = j] = [contents |-> d, keys |-> m, itemKeys |-> j, current |-> u]
      BY <3>2
    <3> QED
      BY <3>1, <3>3, Zenon
  <2> QED
    BY <2>3, <2>4, <2>5, Zenon
<1>5. /\ h.contents = c /\ h.keys = c.master /\ h.itemKeys = LabelsIn(c.keyRecords)
      /\ h.current = handle[p].current
      /\ h = [contents |-> h.contents, keys |-> h.keys, itemKeys |-> h.itemKeys,
              current |-> h.current]
  OBVIOUS
<1>6. c.master \in Nat \union {None} /\ LabelsIn(c.keyRecords) \subseteq Labels
  <2>1. IsTable(c.keyRecords, KeyRecord) /\ c.master \in Nat
    BY <1>2, Zenon DEF Good, IsContents
  <2> QED
    BY <2>1, Fields DEF IsTable, LabelsIn
<1> HIDE DEF h
<1>7. GoodHandle(h)
  BY <1>2, <1>5, <1>6, Zenon DEF GoodHandle, IsHandle, Good
<1>8. Shape
  BY Zenon DEF Ind
<1>9. /\ handle'[p] = h /\ phase[p] # "idle"
      /\ \A q \in Processes : q # p => handle'[q] = handle[q]
  BY <1>1, <1>4, <1>8 DEF Shape, Working
<1>10. Shape'
  BY <1>1, <1>4, <1>8 DEF Shape
<1>11. HandlesGood'
  <2> SUFFICES ASSUME NEW q \in Processes
               PROVE  IF phase[q] = "idle" THEN handle'[q] = None ELSE GoodHandle(handle'[q])
    BY <1>1, Zenon DEF HandlesGood
  <2>1. CASE q = p
    BY <1>7, <1>9, <2>1
  <2>2. CASE q # p
    BY <1>9, <2>2, Zenon DEF Ind, HandlesGood
  <2> QED
    BY <2>1, <2>2
<1>12. ASSUME ~lost PROVE History'
  <2>1. History
    BY <1>12, Zenon DEF Ind
  <2>2. \A q \in Processes : /\ handle'[q].contents = handle[q].contents
                             /\ handle'[q].current = handle[q].current
    BY <1>5, <1>9
  <2>3. \A q \in Processes : Unmoved(q)' <=> Unmoved(q)
    BY <1>1 DEF Unmoved
  <2>4. \A q \in Processes : Unmoved(q)' =>
          /\ handle'[q].contents.commit =< disk'.commit
          /\ handle'[q].contents.commit = disk'.commit => handle'[q].contents = disk'
    BY <1>1, <2>1, <2>2, <2>3 DEF History
  <2>5. \A q, r \in Processes :
          Unmoved(q)' /\ Unmoved(r)' /\ handle'[q].contents.commit = handle'[r].contents.commit
            => handle'[q].contents = handle'[r].contents
    BY <2>1, <2>2, <2>3 DEF History
  <2>6. \A q \in Processes : phase'[q] = "changed" /\ handle'[q].current =>
          handle'[q].contents.commit > disk'.commit
    BY <1>1, <2>1, <2>2 DEF History
  <2>7. \A q \in Processes : Unmoved(q)' /\ handle'[q].current => handle'[q].contents = disk'
    BY <1>1, <2>1, <2>2, <2>3 DEF History
  <2>8. reference' # None =>
       /\ reference'.commit =< disk'.commit
       /\ Leads(disk', reference')
       /\ \A q \in Processes : Unmoved(q)' => Leads(handle'[q].contents, reference')
    BY <1>1, <2>1, <2>2, <2>3 DEF History
  <2>9. ~misdirected'
    BY <1>1, <2>1 DEF History
  <2> QED
    BY <2>4, <2>5, <2>6, <2>7, <2>8, <2>9 DEF History
<1> QED
  BY <1>1, <1>2, <1>10, <1>11, <1>12, Zenon DEF Ind

(* A save keeps the invariant, and moves the file on unless an update is lost. *)
LEMMA SaveStep ==
  ASSUME Ind, NEW p \in Processes, Save(p)
  PROVE  Ind' /\ (~lost' => disk'.commit > disk.commit)
<1> DEFINE Stale(q) == IF q = p \/ ~Working(q) THEN None
                       ELSE [handle[q] EXCEPT !.current = FALSE]
<1>1. /\ phase[p] = "changed" /\ disk' = handle[p].contents
      /\ lost' = (lost \/ ~handle[p].current)
      /\ phase' = [phase EXCEPT ![p] = "idle"]
      /\ handle' = [q \in Processes |-> Stale(q)]
      /\ reference' = reference /\ misdirected' = misdirected
  BY Zenon DEF Save
<1>2. Shape /\ Good(disk) /\ HandlesGood
  BY Zenon DEF Ind
<1>3. Working(p)
  BY <1>1 DEF Working
<1>4. Good(disk)'
  BY <1>1, <1>3, HandleFacts
<1>5. /\ phase'[p] = "idle" /\ handle'[p] = None
      /\ \A q \in Processes : q # p => phase'[q] = phase[q]
      /\ \A q \in Processes : handle'[q] = Stale(q)
  BY <1>1, <1>2 DEF Shape
<1>6. \A q \in Processes : q # p /\ phase[q] # "idle" =>
        /\ GoodHandle(handle'[q])
        /\ handle'[q].contents = handle[q].contents
        /\ handle'[q].current = FALSE
  <2> SUFFICES ASSUME NEW q \in Processes, q # p, phase[q] # "idle"
               PROVE  /\ GoodHandle(handle'[q])
                      /\ handle'[q].contents = handle[q].contents
                      /\ handle'[q].current = FALSE
    OBVIOUS
  <2>1. GoodHandle(handle[q]) /\ Working(q)
    BY <1>2 DEF HandlesGood, Working
  <2> DEFINE g == handle[q]
             d == g.contents
             k == g.keys
             i == g.itemKeys
             u == g.current
             v == FALSE
             h == [g EXCEPT !.current = v]
  <2>2. g = [contents |-> d, keys |-> k, itemKeys |-> i, current |-> u]
    BY <2>1, HandleFacts
  <2>3. k \in Nat \union {None} /\ i \subseteq Labels /\ Good(d)
        /\ (k # None => k = d.master /\ i = LabelsIn(d.keyRecords))
    BY <2>1, Zenon DEF GoodHandle, IsHandle
  <2>4. handle'[q] = h
    BY <1>5, <2>1
  <2>6. v = FALSE
    OBVIOUS
  <2> HIDE DEF g, d, k, i, u, v
  <2>7. h = [contents |-> d, keys |-> k, itemKeys |-> i, current |-> v]
    BY <2>2
  <2> HIDE DEF h
  <2>8. /\ h.contents = d /\ h.keys = k /\ h.itemKeys = i /\ h.current = v
        /\ h = [contents |-> h.contents, keys |-> h.keys, itemKeys |-> h.itemKeys,
                current |-> h.current]
    BY <2>7
  <2>9. GoodHandle(h)
    <3>1. v \in BOOLEAN
      BY <2>6
    <3> QED
      BY <2>3, <2>8, <3>1, Zenon DEF GoodHandle, IsHandle, Good
  <2> QED
    BY <2>4, <2>6, <2>8, <2>9, Zenon DEF d, g
<1> HIDE DEF Stale
<1>7. \A q \in Processes : phase'[q] # "idle" =>
        q # p /\ phase[q] # "idle" /\ phase'[q] = phase[q]
  BY <1>5
<1>8. HandlesGood'
  <2> SUFFICES ASSUME NEW q \in Processes
               PROVE  IF phase'[q] = "idle" THEN handle'[q] = None ELSE GoodHandle(handle'[q])
    BY Zenon DEF HandlesGood
  <2>1. CASE phase'[q] # "idle"
    BY <1>6, <1>7, <2>1
  <2>2. CASE phase'[q] = "idle"
    <3>1. q = p \/ ~Working(q)
      BY <1>5, <2>2 DEF Working
    <3> QED
      BY <1>5, <2>2, <3>1 DEF Stale
  <2> QED
    BY <2>1, <2>2
<1>9. handle[p].current \in BOOLEAN
  BY <1>3, HandleFacts
<1>10. Shape'
  BY <1>1, <1>2, <1>9 DEF Shape
<1>11. disk.commit \in Nat /\ disk'.commit \in Nat
  BY <1>2, <1>4, Zenon DEF Good, IsContents
<1>12. ~lost' => ~lost /\ handle[p].current /\ History
  BY <1>1, <1>9, Zenon DEF Ind
<1>13. ~lost' => disk'.commit > disk.commit
  BY <1>1, <1>12 DEF History
<1>14. ASSUME ~lost' PROVE History'
  <2>1. History /\ disk'.commit > disk.commit
    BY <1>12, <1>13, <1>14
  <2>2. \A q \in Processes : Unmoved(q)' =>
          Unmoved(q) /\ handle'[q].contents = handle[q].contents /\ handle'[q].current = FALSE
    BY <1>6, <1>7 DEF Unmoved
  <2>3. \A q \in Processes : Unmoved(q) => handle[q].contents.commit \in Nat
    <3> SUFFICES ASSUME NEW q \in Processes, Unmoved(q) PROVE handle[q].contents.commit \in Nat
      OBVIOUS
    <3>1. Working(q)
      BY DEF Unmoved, Working
    <3> QED
      BY <3>1, HandleFacts
  <2>4. \A q \in Processes : Unmoved(q)' => handle'[q].contents.commit < disk'.commit
    <3> SUFFICES ASSUME NEW q \in Processes, Unmoved(q)'
                 PROVE  handle'[q].contents.commit < disk'.commit
      OBVIOUS
    <3>1. /\ handle[q].contents.commit =< disk.commit /\ handle[q].contents.commit \in Nat
          /\ handle'[q].contents.commit = handle[q].contents.commit
      BY <2>1, <2>2, <2>3 DEF History
    <3> QED
      BY <1>11, <2>1, <3>1
  <2>5. \A q \in Processes : Unmoved(q)' =>
          /\ handle'[q].contents.commit =< disk'.commit
          /\ handle'[q].contents.commit = disk'.commit => handle'[q].contents = disk'
    <3>1. \A q \in Processes : Unmoved(q)' => handle'[q].contents.commit \in Nat
      BY <2>2, <2>3
    <3> QED
      BY <1>11, <2>4, <3>1
  <2>6. \A q, r \in Processes :
          Unmoved(q)' /\ Unmoved(r)' /\ handle'[q].contents.commit = handle'[r].contents.commit
            => handle'[q].contents = handle'[r].contents
    BY <2>1, <2>2 DEF History
  <2>7. \A q \in Processes : Unmoved(q)' /\ handle'[q].current => handle'[q].contents = disk'
    BY <2>2
  <2>8. \A q \in Processes : phase'[q] = "changed" /\ handle'[q].current =>
          handle'[q].contents.commit > disk'.commit
    BY <1>6, <1>7
  <2>9. ~misdirected'
    BY <1>1, <2>1 DEF History
  <2>10. reference' # None =>
       /\ reference'.commit =< disk'.commit
       /\ Leads(disk', reference')
       /\ \A q \in Processes : Unmoved(q)' => Leads(handle'[q].contents, reference')
    <3> SUFFICES ASSUME reference # None
                 PROVE  /\ reference.commit =< disk'.commit
                        /\ Leads(disk', reference)
                        /\ \A q \in Processes : Unmoved(q)' => Leads(handle'[q].contents, reference)
      BY <1>1
    <3>1. reference.commit \in Nat
      BY <1>2 DEF Shape, Reference
    <3>2. reference.commit =< disk.commit
          /\ \A q \in Processes : Unmoved(q) => Leads(handle[q].contents, reference)
      BY <2>1 DEF History
    <3>3. reference.commit < disk'.commit
      BY <1>11, <2>1, <3>1, <3>2
    <3>4. Leads(disk', reference)
      BY <1>11, <3>1, <3>3 DEF Leads
    <3>5. \A q \in Processes : Unmoved(q)' => Leads(handle'[q].contents, reference)
      BY <2>2, <3>2
    <3> QED
      BY <1>11, <3>1, <3>3, <3>4, <3>5
  <2> QED
    BY <2>5, <2>6, <2>7, <2>8, <2>9, <2>10 DEF History
<1>15. Ind'
  BY <1>4, <1>8, <1>10, <1>14 DEF Ind
<1> QED
  BY <1>13, <1>15

(* Every step of a process keeps the invariant; only a save moves the file. *)
LEMMA ProcessStep ==
  ASSUME Ind, NEW p \in Processes, Step(p)
  PROVE  Ind' /\ (disk' # disk /\ ~lost' => disk'.commit > disk.commit)
<1>1. CASE Open(p)
  BY <1>1, OpenStep DEF Open
<1>2. CASE Exit(p)
  BY <1>2, ExitStep DEF Exit
<1>3. CASE Save(p)
  BY <1>3, SaveStep
<1>4. CASE SetSettings(p)
  BY <1>4, SettingsStep DEF SetSettings
<1>5. ASSUME NEW password \in Passwords, Unlock(p, password) PROVE Ind' /\ disk' = disk
  BY <1>5, UnlockStep DEF Unlock
<1>6. ASSUME NEW id \in Ids, AddPassword(p, id) PROVE Ind' /\ disk' = disk
  <2>1. disk' = disk
    BY <1>6, Zenon DEF AddPassword
  <2> QED
    BY <1>6, <2>1, AddStep
<1>7. ASSUME NEW n \in Numbers, NEW secret \in BOOLEAN, UpdateItem(p, n, secret)
      PROVE  Ind' /\ disk' = disk
  BY <1>7, UpdateStep DEF UpdateItem
<1>8. ASSUME NEW n \in Numbers, DeleteItem(p, n) PROVE Ind' /\ disk' = disk
  <2>1. disk' = disk
    BY <1>8, Zenon DEF DeleteItem
  <2> QED
    BY <1>8, <2>1, DeleteStep
<1>9. ASSUME NEW n \in Numbers, SetItemAccess(p, n) \/ SetPrivateKeyAccess(p, n)
      PROVE  Ind' /\ disk' = disk
  <2>1. disk' = disk
    BY <1>9, Zenon DEF SetItemAccess, SetPrivateKeyAccess
  <2> QED
    BY <1>9, <2>1, AccessStep
<1>10. ASSUME NEW n \in Numbers, MakeReference(p, n) PROVE Ind' /\ disk' = disk
  <2>1. disk' = disk
    BY <1>10, Zenon DEF MakeReference
  <2> QED
    BY <1>10, <2>1, MakeReferenceStep
<1>11. ASSUME NEW secret \in BOOLEAN, SetByReference(p, secret) PROVE Ind' /\ disk' = disk
  <2>1. disk' = disk
    BY <1>11, Zenon DEF SetByReference
  <2> QED
    BY <1>11, <2>1, ReferenceStep
<1>12. ASSUME NEW hash \in Hashes, AddIdentity(p, hash) PROVE Ind' /\ disk' = disk
  <2>1. disk' = disk
    BY <1>12, Zenon DEF AddIdentity
  <2> QED
    BY <1>12, <2>1, AddIdentityStep
<1>13. ASSUME NEW hash \in Hashes, NEW includeKeys \in BOOLEAN, DeleteIdentity(p, hash, includeKeys)
       PROVE  Ind' /\ disk' = disk
  <2>1. disk' = disk
    BY <1>13, Zenon DEF DeleteIdentity
  <2> QED
    BY <1>13, <2>1, DeleteIdentityStep
<1>14. ASSUME NEW old \in Passwords, NEW new \in Passwords, ChangePassword(p, old, new)
       PROVE  Ind' /\ disk' = disk
  <2>1. disk' = disk
    BY <1>14, Zenon DEF ChangePassword
  <2> QED
    BY <1>14, <2>1, PasswordStep
<1> QED
  BY <1>1, <1>2, <1>3, <1>4, <1>5, <1>6, <1>7, <1>8, <1>9, <1>10, <1>11, <1>12, <1>13, <1>14,
     Zenon DEF Step

(* Every step of the specification. *)
LEMMA FileStep ==
  ASSUME Ind, [Next]_vars
  PROVE  Ind' /\ (disk' # disk /\ ~lost' => disk'.commit > disk.commit)
<1>1. CASE Next
  BY <1>1, ProcessStep, Zenon DEF Next
<1>2. CASE UNCHANGED vars
  <2>1. /\ disk' = disk /\ phase' = phase /\ handle' = handle /\ reference' = reference
        /\ lost' = lost /\ misdirected' = misdirected
    BY <1>2 DEF vars
  <2>2. Shape' /\ Good(disk)' /\ HandlesGood'
    BY <2>1, Zenon DEF Ind, Shape, HandlesGood
  <2>3. ~lost' => History'
    <3>1. \A p \in Processes : Unmoved(p)' <=> Unmoved(p)
      BY <2>1 DEF Unmoved
    <3> QED
      BY <2>1, <3>1, Zenon DEF Ind, History
  <2> QED
    BY <2>1, <2>2, <2>3, Zenon DEF Ind
<1> QED
  BY <1>1, <1>2

(* The invariant holds in every behaviour. *)
LEMMA IndAlways == Spec => []Ind
<1>1. Init => Ind
  BY InitFile
<1>2. Ind /\ [Next]_vars => Ind'
  BY FileStep
<1> QED
  BY <1>1, <1>2, PTL DEF Spec

(* The inductive invariant that the runs check: a keychain stays sound, its   *)
(* secrets readable, and revisions identify files until an update is lost.  *)
THEOREM FileCorrect == Spec => []FileInv
  BY IndAlways, IndIsFileInv, PTL

(* Whatever is saved over whatever, each file and each copy has every item    *)
(* with its key record, unique identities, and versions behind its own.     *)
THEOREM KeychainSound == Spec => []KeychainInv
<1>1. FileInv => KeychainInv
  BY Zenon DEF FileInv, KeychainInv, HandleSound
<1> QED
  BY <1>1, FileCorrect, PTL

(* Every secret in the file opens with the current password, and an unlocked  *)
(* handle holds the keys of exactly its items.                              *)
THEOREM SecretsOpen == Spec => []EverySecretOpens
<1>1. Ind => EverySecretOpens
  <2> SUFFICES ASSUME Ind PROVE EverySecretOpens
    OBVIOUS
  <2>1. ASSUME NEW c, Good(c) PROVE LabelsIn(c.keyRecords) = LabelsIn(c.items)
    <3>1. Matched(c.items, c.keyRecords)
      BY <2>1, FieldsFromGood, Zenon DEF GoodFields
    <3> QED
      BY <3>1 DEF Matched, LabelsIn
  <2>2. UnwrapItemKeys(disk, disk.master) = LabelsIn(disk.items)
    BY <2>1, AllUnwrap, Zenon DEF Ind
  <2>3. ASSUME NEW p \in Processes, Working(p), handle[p].keys # None
        PROVE  /\ handle[p].keys = handle[p].contents.master
               /\ handle[p].itemKeys = LabelsIn(handle[p].contents.items)
    BY <2>1, <2>3, HandleFacts, ItemKeys, Zenon
  <2> QED
    BY <2>2, <2>3, Zenon DEF EverySecretOpens
<1> QED
  BY <1>1, IndAlways, PTL

(* A save over a file that was read moves the commit version on.             *)
THEOREM SavesAdvance == Spec => DiskAdvances
<1>1. Ind /\ [Next]_vars => [disk' # disk /\ ~lost' => disk'.commit > disk.commit]_vars
  BY FileStep
<1> QED
  BY <1>1, IndAlways, PTL DEF Spec, DiskAdvances

(* Until a save overwrites a file that was not read, a reference never leads  *)
(* to another item than the one it was made from.                           *)
THEOREM ReferencesSafe == Spec => []RefsWhileAlone
<1>1. FileInv => RefsWhileAlone
  BY Zenon DEF FileInv, History, RefsWhileAlone
<1> QED
  BY <1>1, FileCorrect, PTL

=============================================================================
