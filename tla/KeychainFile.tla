----------------------------- MODULE KeychainFile -----------------------------
(***************************************************************************)
(* A keychain file and the processes that open, change and save it         *)
(* (keychain/src/db.rs, write.rs and edit.rs, used as kc.rs uses them).    *)
(*                                                                         *)
(* A process reads the whole file, works on its copy and renames a new file *)
(* over the old one.  Nothing locks the file.  A command saves once, and   *)
(* one that fails leaves without saving.                                   *)
(*                                                                         *)
(* Tables are stores of numbered records (see NumberedStore): a new record   *)
(* takes any unused number, the one the free list gives among them.  An      *)
(* item's secret is sealed with a key of its own; item and key record share a     *)
(* random label, which stands for the key too.  The key record's blob is    *)
(* wrapped under the master key, and the master key under the password.    *)
(***************************************************************************)
EXTENDS Naturals, FiniteSets

CONSTANTS
  Processes,
  Ids,        (* identities of password items                              *)
  Hashes,     (* public key hashes of certificates                         *)
  Labels,     (* labels of item keys                                       *)
  Numbers,    (* record numbers: bounds each table                         *)
  Passwords,
  None,       (* no handle, no key, no reference                           *)
  MaxCommit   (* bound: the commit version                                 *)

ASSUME FileAssumption ==
  /\ Passwords # {}
  /\ IsFiniteSet(Numbers)
  /\ None \notin Nat
  /\ MaxCommit \in Nat \ {0}

VARIABLES
  disk,         (* the file's contents                                     *)
  phase,        (* "idle", "open" (not changed) or "changed"               *)
  handle,       (* each process's KeychainFile                             *)
  reference,    (* a reference that `kc get` printed, or None              *)
  lost,         (* history: a save wrote over a file it had not read       *)
  misdirected   (* history: a reference led to another item                *)

vars == <<disk, phase, handle, reference, lost, misdirected>>

Item == [id : Ids, label : Labels, version : Nat]
KeyRecord == [label : Labels, under : Nat, version : Nat]
Certificate == [hash : Hashes, version : Nat]
PrivateKey == [hash : Hashes, version : Nat]

IsTable(table, R) ==
  /\ DOMAIN table \subseteq Numbers
  /\ \A n \in DOMAIN table : table[n] \in R

IsContents(c) ==
  /\ c = [items |-> c.items, keyRecords |-> c.keyRecords,
          certificates |-> c.certificates, privateKeys |-> c.privateKeys,
          certificateTable |-> c.certificateTable, password |-> c.password,
          master |-> c.master, commit |-> c.commit]
  /\ IsTable(c.items, Item)
  /\ IsTable(c.keyRecords, KeyRecord)
  /\ IsTable(c.certificates, Certificate)
  /\ IsTable(c.privateKeys, PrivateKey)
  /\ c.certificateTable \in BOOLEAN
  /\ c.password \in Passwords
  /\ c.master \in Nat
  /\ c.commit \in Nat

IsHandle(h) ==
  /\ h = [contents |-> h.contents, keys |-> h.keys, itemKeys |-> h.itemKeys,
          current |-> h.current]
  /\ IsContents(h.contents)
  /\ h.keys \in Nat \union {None}
  /\ h.itemKeys \subseteq Labels
  /\ h.current \in BOOLEAN

Reference == [commit : Nat, number : Numbers, label : Labels]

TypeOK ==
  /\ IsContents(disk)
  /\ phase \in [Processes -> {"idle", "open", "changed"}]
  /\ DOMAIN handle = Processes
  /\ \A p \in Processes : IF phase[p] = "idle" THEN handle[p] = None ELSE IsHandle(handle[p])
  /\ reference \in Reference \union {None}
  /\ lost \in BOOLEAN
  /\ misdirected \in BOOLEAN

-----------------------------------------------------------------------------
(* Contents.                                                               *)

EmptyTable == [n \in {} |-> n]

With(table, n, r) == [m \in DOMAIN table \union {n} |-> IF m = n THEN r ELSE table[m]]
Without(table, S) == [m \in DOMAIN table \ S |-> table[m]]

LabelsIn(table) == {table[n].label : n \in DOMAIN table}

(* KeychainFile::create. *)
Created(password) ==
  [items |-> EmptyTable, keyRecords |-> EmptyTable,
   certificates |-> EmptyTable, privateKeys |-> EmptyTable,
   certificateTable |-> FALSE, password |-> password, master |-> 1,
   commit |-> 1]

(* Mutant: the commit version stays. *)
NotBumped(c, count) == c

(* bump_commit_version, count times. *)
Bumped(c, count) == [c EXCEPT !.commit = @ + count]

(* unwrap_item_keys: the keys of the key records that open under the key. *)
UnwrapItemKeys(c, keys) ==
  {c.keyRecords[k].label : k \in {k \in DOMAIN c.keyRecords : c.keyRecords[k].under = keys}}

(* The key records of a label. *)
KeyNumbers(c, label) == {k \in DOMAIN c.keyRecords : c.keyRecords[k].label = label}

Init ==
  /\ \E password \in Passwords : disk = Created(password)
  /\ phase = [p \in Processes |-> "idle"]
  /\ handle = [p \in Processes |-> None]
  /\ reference = None
  /\ lost = FALSE
  /\ misdirected = FALSE

-----------------------------------------------------------------------------
(* Opening, unlocking and leaving.                                         *)

Working(p) == phase[p] # "idle"

Open(p) ==
  /\ phase[p] = "idle"
  /\ phase' = [phase EXCEPT ![p] = "open"]
  /\ handle' = [handle EXCEPT ![p] =
                  [contents |-> disk, keys |-> None, itemKeys |-> {}, current |-> TRUE]]
  /\ UNCHANGED <<disk, reference, lost, misdirected>>

Unlock(p, password) ==
  /\ Working(p)
  /\ LET c == handle[p].contents
     IN  /\ password = c.password
         /\ handle' = [handle EXCEPT ![p].keys = c.master,
                                     ![p].itemKeys = UnwrapItemKeys(c, c.master)]
  /\ UNCHANGED <<disk, phase, reference, lost, misdirected>>

(* The command ends without saving: it only read, it failed, or it was killed. *)
Exit(p) ==
  /\ Working(p)
  /\ phase' = [phase EXCEPT ![p] = "idle"]
  /\ handle' = [handle EXCEPT ![p] = None]
  /\ UNCHANGED <<disk, reference, lost, misdirected>>

(* save: write a temporary file and rename it over the keychain.  The other  *)
(* processes' copies are of a file that is gone.                            *)
Save(p) ==
  /\ phase[p] = "changed"
  /\ disk' = handle[p].contents
  /\ lost' = (lost \/ ~handle[p].current)
  /\ phase' = [phase EXCEPT ![p] = "idle"]
  /\ handle' = [q \in Processes |->
                  IF q = p \/ ~Working(q) THEN None
                  ELSE [handle[q] EXCEPT !.current = FALSE]]
  /\ UNCHANGED <<reference, misdirected>>

(* The process's copy becomes c, with these item keys. *)
Change(p, c, itemKeys) ==
  /\ c.commit =< MaxCommit
  /\ phase' = [phase EXCEPT ![p] = "changed"]
  /\ handle' = [handle EXCEPT ![p].contents = c, ![p].itemKeys = itemKeys]

-----------------------------------------------------------------------------
(* Items.                                                                  *)

LabelsInUse ==
  LabelsIn(disk.items)
    \union UNION {LabelsIn(handle[p].contents.items) : p \in {q \in Processes : Working(q)}}
    \union IF reference = None THEN {} ELSE {reference.label}

(* Mutant: the new key is not remembered. *)
AddUnremembered(p, id) ==
  /\ Working(p)
  /\ handle[p].keys # None
  /\ LET c == handle[p].contents
         b == Bumped(c, 1)
     IN  /\ \A n \in DOMAIN c.items : c.items[n].id # id
         /\ \E n \in Numbers \ DOMAIN c.items, k \in Numbers \ DOMAIN c.keyRecords,
               label \in Labels \ LabelsInUse :
              Change(p,
                [b EXCEPT
                   !.keyRecords = With(@, k, [label |-> label, under |-> handle[p].keys,
                                              version |-> b.commit]),
                   !.items = With(@, n, [id |-> id, label |-> label, version |-> b.commit])],
                handle[p].itemKeys)
  /\ UNCHANGED <<disk, reference, lost, misdirected>>

(* add_password_with_access: a fresh label and key, the key record and the   *)
(* item, both stamped with the new commit version.                          *)
AddPassword(p, id) ==
  /\ Working(p)
  /\ handle[p].keys # None
  /\ LET c == handle[p].contents
         b == Bumped(c, 1)
     IN  /\ \A n \in DOMAIN c.items : c.items[n].id # id
         /\ \E n \in Numbers \ DOMAIN c.items, k \in Numbers \ DOMAIN c.keyRecords,
               label \in Labels \ LabelsInUse :
              Change(p,
                [b EXCEPT
                   !.keyRecords = With(@, k, [label |-> label, under |-> handle[p].keys,
                                              version |-> b.commit]),
                   !.items = With(@, n, [id |-> id, label |-> label, version |-> b.commit])],
                handle[p].itemKeys \union {label})
  /\ UNCHANGED <<disk, reference, lost, misdirected>>

Updated(c, n) ==
  LET b == Bumped(c, 1) IN [b EXCEPT !.items[n].version = b.commit]

(* update_item: a new secret takes the item's key, attributes take nothing. *)
UpdateItem(p, n, secret) ==
  /\ Working(p)
  /\ LET c == handle[p].contents
     IN  /\ n \in DOMAIN c.items
         /\ secret => c.items[n].label \in handle[p].itemKeys
         /\ Change(p, Updated(c, n), handle[p].itemKeys)
  /\ UNCHANGED <<disk, reference, lost, misdirected>>

(* Mutant: the key record is left behind. *)
DeleteItemOnly(p, n) ==
  /\ Working(p)
  /\ LET c == handle[p].contents
     IN  /\ n \in DOMAIN c.items
         /\ Change(p, [Bumped(c, 1) EXCEPT !.items = Without(@, {n})],
                   handle[p].itemKeys \ {c.items[n].label})
  /\ UNCHANGED <<disk, reference, lost, misdirected>>

(* delete_item: the item, the first key record of its label, one commit for  *)
(* each record removed.                                                     *)
DeleteItem(p, n) ==
  /\ Working(p)
  /\ LET c == handle[p].contents
         keyNumbers == KeyNumbers(c, c.items[n].label)
     IN  /\ n \in DOMAIN c.items
         /\ \E found \in {{k} : k \in keyNumbers} \union (IF keyNumbers = {} THEN {{}} ELSE {}) :
              Change(p,
                [Bumped(c, IF found = {} THEN 1 ELSE 2) EXCEPT
                   !.items = Without(@, {n}),
                   !.keyRecords = Without(@, found)],
                handle[p].itemKeys \ {c.items[n].label})
  /\ UNCHANGED <<disk, reference, lost, misdirected>>

(* set_item_access: the key record is signed again, and not stamped.  The    *)
(* access lists themselves are left out.                                    *)
SetItemAccess(p, n) ==
  /\ Working(p)
  /\ handle[p].keys # None
  /\ LET c == handle[p].contents
     IN  /\ n \in DOMAIN c.items
         /\ KeyNumbers(c, c.items[n].label) # {}
         /\ Change(p, Bumped(c, 1), handle[p].itemKeys)
  /\ UNCHANGED <<disk, reference, lost, misdirected>>

-----------------------------------------------------------------------------
(* References.                                                             *)

(* kc get -o @ref: the file's commit version and the item's number. *)
MakeReference(p, n) ==
  /\ phase[p] = "open"
  /\ LET c == handle[p].contents
     IN  /\ n \in DOMAIN c.items
         /\ reference' = [commit |-> c.commit, number |-> n, label |-> c.items[n].label]
  /\ UNCHANGED <<disk, phase, handle, lost, misdirected>>

(* Mutant: the commit version is not compared. *)
ResolvesByNumber(c, r) == r.number \in DOMAIN c.items

(* resolve_ref. *)
Resolves(c, r) ==
  /\ c.commit = r.commit
  /\ r.number \in DOMAIN c.items

(* kc set --for -: resolve on the file as opened, then update_item. *)
SetByReference(p, secret) ==
  /\ phase[p] = "open"
  /\ reference # None
  /\ LET c == handle[p].contents
         n == reference.number
     IN  /\ Resolves(c, reference)
         /\ secret => c.items[n].label \in handle[p].itemKeys
         /\ Change(p, Updated(c, n), handle[p].itemKeys)
         /\ misdirected' = (misdirected \/ c.items[n].label # reference.label)
  /\ UNCHANGED <<disk, reference, lost>>

-----------------------------------------------------------------------------
(* Identities.                                                             *)

(* add_identity_with_access: ensure_relation, then both records. *)
AddIdentity(p, hash) ==
  /\ Working(p)
  /\ handle[p].keys # None
  /\ LET c == handle[p].contents
         b == Bumped(c, 1)
     IN  \E n \in Numbers \ DOMAIN c.certificates, k \in Numbers \ DOMAIN c.privateKeys :
           Change(p,
             [b EXCEPT
                !.certificateTable = TRUE,
                !.privateKeys = With(@, k, [hash |-> hash, version |-> b.commit]),
                !.certificates = With(@, n, [hash |-> hash, version |-> b.commit])],
             handle[p].itemKeys)
  /\ UNCHANGED <<disk, reference, lost, misdirected>>

NumbersOf(table, hash) == {n \in DOMAIN table : table[n].hash = hash}

(* delete_identity_records: every certificate of the hash, and every private *)
(* key of it when the whole identity goes; one commit for each record.      *)
DeleteIdentity(p, hash, includeKeys) ==
  /\ Working(p)
  /\ LET c == handle[p].contents
         certificates == NumbersOf(c.certificates, hash)
         keys == IF includeKeys THEN NumbersOf(c.privateKeys, hash) ELSE {}
         removed == Cardinality(certificates) + Cardinality(keys)
     IN  /\ removed > 0
         /\ Change(p,
              [Bumped(c, removed) EXCEPT
                 !.certificates = Without(@, certificates),
                 !.privateKeys = Without(@, keys)],
              handle[p].itemKeys)
  /\ UNCHANGED <<disk, reference, lost, misdirected>>

(* set_private_key_access, as for an item. *)
SetPrivateKeyAccess(p, k) ==
  /\ Working(p)
  /\ handle[p].keys # None
  /\ k \in DOMAIN handle[p].contents.privateKeys
  /\ Change(p, Bumped(handle[p].contents, 1), handle[p].itemKeys)
  /\ UNCHANGED <<disk, reference, lost, misdirected>>

-----------------------------------------------------------------------------
(* The database blob.                                                      *)

(* Unlocked again after its blob was replaced. *)
Resealed(p, c) ==
  /\ c.commit =< MaxCommit
  /\ phase' = [phase EXCEPT ![p] = "changed"]
  /\ handle' = [handle EXCEPT ![p].contents = c,
                              ![p].keys = c.master,
                              ![p].itemKeys = UnwrapItemKeys(c, c.master)]

(* Mutant: a new password brings a new master key. *)
ChangePasswordRekeyed(p, old, new) ==
  /\ Working(p)
  /\ LET c == handle[p].contents
     IN  /\ old = c.password
         /\ Resealed(p, [Bumped(c, 1) EXCEPT !.password = new, !.master = @ + 1])
  /\ UNCHANGED <<disk, reference, lost, misdirected>>

(* change_password: the master key is sealed under the new password. *)
ChangePassword(p, old, new) ==
  /\ Working(p)
  /\ LET c == handle[p].contents
     IN  /\ old = c.password
         /\ Resealed(p, [Bumped(c, 1) EXCEPT !.password = new])
  /\ UNCHANGED <<disk, reference, lost, misdirected>>

(* set_settings: the blob with other settings, which are left out. *)
SetSettings(p) ==
  /\ Working(p)
  /\ handle[p].keys # None
  /\ Change(p, Bumped(handle[p].contents, 1), handle[p].itemKeys)
  /\ UNCHANGED <<disk, reference, lost, misdirected>>

-----------------------------------------------------------------------------

Step(p) ==
  \/ Open(p) \/ Exit(p) \/ Save(p) \/ SetSettings(p)
  \/ \E password \in Passwords : Unlock(p, password)
  \/ \E id \in Ids : AddPassword(p, id)
  \/ \E n \in Numbers, secret \in BOOLEAN : UpdateItem(p, n, secret)
  \/ \E n \in Numbers :
       DeleteItem(p, n) \/ SetItemAccess(p, n) \/ MakeReference(p, n) \/ SetPrivateKeyAccess(p, n)
  \/ \E secret \in BOOLEAN : SetByReference(p, secret)
  \/ \E hash \in Hashes : AddIdentity(p, hash)
  \/ \E hash \in Hashes, includeKeys \in BOOLEAN : DeleteIdentity(p, hash, includeKeys)
  \/ \E old, new \in Passwords : ChangePassword(p, old, new)

Next == \E p \in Processes : Step(p)

Spec == Init /\ [][Next]_vars

-----------------------------------------------------------------------------
(* Properties.                                                             *)

(* Every item has one key record of its label, and every key record an item. *)
Paired(c) ==
  /\ \A n \in DOMAIN c.items : \E k \in DOMAIN c.keyRecords :
       KeyNumbers(c, c.items[n].label) = {k}
  /\ LabelsIn(c.keyRecords) \subseteq LabelsIn(c.items)

UniqueItems(c) ==
  \A m, n \in DOMAIN c.items :
    m # n => c.items[m].id # c.items[n].id /\ c.items[m].label # c.items[n].label

(* No record is of a later commit than the file. *)
Versions(c) ==
  \A table \in {c.items, c.keyRecords, c.certificates, c.privateKeys} :
    \A n \in DOMAIN table : table[n].version =< c.commit

(* Certificates only stand in a table that the schema declares. *)
Declared(c) == c.certificates # EmptyTable => c.certificateTable

Sound(c) == Paired(c) /\ UniqueItems(c) /\ Versions(c) /\ Declared(c)

(* Whatever a process has done to its copy, and whatever was saved over      *)
(* whatever, a keychain is sound: items and their keys in step, identities  *)
(* unique, versions behind the commit version (write.rs, edit.rs).          *)
KeychainInv ==
  /\ TypeOK
  /\ Sound(disk)
  /\ \A p \in Processes : Working(p) => Sound(handle[p].contents)

(* Every key record is wrapped under the master key of its file, so whoever  *)
(* has the current password reads every item; and an unlocked handle has     *)
(* the keys of just the items that its copy holds, through adds, deletes     *)
(* and password changes ("must not disturb the master keys", edit.rs).      *)
EverySecretOpens ==
  /\ UnwrapItemKeys(disk, disk.master) = LabelsIn(disk.items)
  /\ \A p \in Processes :
       Working(p) /\ handle[p].keys # None =>
         /\ handle[p].keys = handle[p].contents.master
         /\ handle[p].itemKeys = LabelsIn(handle[p].contents.items)

(* A save of a process that had read the current file moves the commit       *)
(* version on: no two files that follow one another share a version, which  *)
(* is what references compare (bump_commit_version at each change).         *)
DiskAdvances == [][disk' # disk /\ ~lost' => disk'.commit > disk.commit]_vars

(* As long as no save has overwritten a file that its process had not read,  *)
(* a reference either is refused or leads to the item it was made from      *)
(* (item_ref and resolve_ref in db.rs).                                     *)
RefsWhileAlone == misdirected => lost

(* What the two runs and the proofs rest on.  As long as nothing was lost,   *)
(* two files of one commit version are the same file: so a copy that was    *)
(* read and not changed is at or behind the disk, one that was changed is   *)
(* ahead of it, and the reference means the same item in all of them.       *)
Opens(c) == \A k \in DOMAIN c.keyRecords : c.keyRecords[k].under = c.master

HandleSound(h) ==
  /\ Sound(h.contents)
  /\ Opens(h.contents)
  /\ h.keys # None =>
       h.keys = h.contents.master /\ h.itemKeys = LabelsIn(h.contents.keyRecords)

Leads(c, r) ==
  c.commit = r.commit /\ r.number \in DOMAIN c.items => c.items[r.number].label = r.label

Unmoved(p) == phase[p] = "open"

History ==
  /\ ~misdirected
  /\ \A p \in Processes : Unmoved(p) =>
       /\ handle[p].contents.commit =< disk.commit
       /\ handle[p].contents.commit = disk.commit => handle[p].contents = disk
  /\ \A p, q \in Processes :
       Unmoved(p) /\ Unmoved(q) /\ handle[p].contents.commit = handle[q].contents.commit
         => handle[p].contents = handle[q].contents
  /\ \A p \in Processes : phase[p] = "changed" /\ handle[p].current =>
       handle[p].contents.commit > disk.commit
  /\ \A p \in Processes : Unmoved(p) /\ handle[p].current => handle[p].contents = disk
  /\ reference # None =>
       /\ reference.commit =< disk.commit
       /\ Leads(disk, reference)
       /\ \A p \in Processes : Unmoved(p) => Leads(handle[p].contents, reference)

FileInv ==
  /\ TypeOK
  /\ Sound(disk) /\ Opens(disk)
  /\ \A p \in Processes : Working(p) => HandleSound(handle[p])
  /\ ~lost => History

(* README.md of the repository: a keychain that changed underneath you fails *)
(* loudly instead of silently updating the wrong item.                      *)
RefFailsLoudly == ~misdirected
=============================================================================
