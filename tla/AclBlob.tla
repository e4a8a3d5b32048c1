------------------------------- MODULE AclBlob -------------------------------
(***************************************************************************)
(* The public ACL of an item's key: who may use the item, as bytes and     *)
(* back. Operators only.                                                   *)
(*                                                                         *)
(* A name or a path is a sequence of bytes without a zero in it, and is    *)
(* valid UTF-8: the reader measures what it decoded.                       *)
(***************************************************************************)
EXTENDS Reading

CONSTANTS
    HashLen,        \* LEGACY_HASH_LEN
    MostEntries     \* what the reader takes of entries, of elements and of tags

SubjectTag == 123
SubjectLead == 1
SubjectAny == 1
SubjectTrusted == 116
TrustedLead == 1
SubjectTrailer == <<1, 1, 0, 0, 1, 1, 0, 0>>

Tag35 == <<35>>
ItemAccess == <<24, 28, 37, 38, 59, 115>>

\* The subject that any application fits, against a list of applications.
AnyApplication == [any |-> TRUE, applications |-> <<>>]
OnlyThese(applications) == [any |-> FALSE, applications |-> applications]

------------------------------------------------------------------------------
(* Writing. *)

NameFieldLen(name) == Pad4(Len(name) + 1)
NameField(name) == name \o Zeros(NameFieldLen(name) - Len(name))

ApplicationBytes(app) ==
    Numbers(<<SubjectTrusted, TrustedLead, HashLen>>) \o app.hash
      \o Number(NameFieldLen(app.path) + Len(app.requirement))
      \o NameField(app.path) \o app.requirement

ApplicationLen(app) ==
    4 * 3 + HashLen + 4 + NameFieldLen(app.path) + Len(app.requirement)

SubjectBytes(subject) ==
    IF subject.any THEN Number(SubjectAny)
    ELSE Joined([i \in DOMAIN subject.applications |->
                     ApplicationBytes(subject.applications[i])])

\* A variant for the runs: the word that counts elements only tells an owner from the rest.
ElementWordAsKind(subject) == IF subject.any \/ subject.applications # <<>> THEN 2 ELSE 1

\* The stored word: one more than the elements of the subject.
ElementWord(subject) == 1 + (IF subject.any THEN 1 ELSE Len(subject.applications))

\* An owner entry has neither a subject nor an authorization.
OwnerBytes(name) ==
    Numbers(<<0, SubjectTag, 1, SubjectLead>>) \o SubjectTrailer \o NameField(name)

EntryBytes(entry) ==
    Numbers(<<0, SubjectTag, ElementWord(entry.subject), SubjectLead>>)
      \o SubjectBytes(entry.subject) \o SubjectTrailer \o NameField(entry.name)
      \o Numbers(entry.prefix) \o Number(Len(entry.tags)) \o Numbers(entry.tags)

AclBytes(blob) ==
    OwnerBytes(blob.owner) \o Number(Len(blob.entries))
      \o Joined([i \in DOMAIN blob.entries |-> EntryBytes(blob.entries[i])])

\* `encoded_len', which the key blob's offsets are computed from.
EntryLen(entry) ==
    4 * 4 + Len(SubjectTrailer) + NameFieldLen(entry.name)
      + (IF entry.subject.any THEN 4
         ELSE TotalOf([i \in DOMAIN entry.subject.applications |->
                           ApplicationLen(entry.subject.applications[i])]))
      + 4 * (3 + Len(entry.tags))

AclLen(blob) ==
    4 * 4 + Len(SubjectTrailer) + NameFieldLen(blob.owner) + 4
      + TotalOf([i \in DOMAIN blob.entries |-> EntryLen(blob.entries[i])])

------------------------------------------------------------------------------
(* Reading. *)

\* A name ends at its zero, and the reader goes on after the padding without looking at it:
\* a place past the end is found by whatever is read next.
ReadName(data, at) ==
    LET zeros == {i \in Positions(data, 0) : i >= at}
    IN  IF zeros = {} THEN Failed
        ELSE LET name == SubSeq(data, at, Earliest(zeros) - 1)
             IN  [value |-> name, next |-> at + NameFieldLen(name)]

\* The type word, which `subject' has looked at for the first application only, is not
\* looked at again. Where the comment ends within the padding of its path the code panics:
\* reading fails.
ReadApplication(data, at) ==
    LET hash == ReadBytes(data, at + 12, HashLen)
        length == ReadNumber(data, at + 12 + HashLen)
        comment == ReadBytes(data, length.next, length.value)
        path == ReadName(comment.value, 1)
    IN  IF \/ ~Expected(data, at + 4, Numbers(<<TrustedLead, HashLen>>))
           \/ hash = Failed \/ length = Failed \/ comment = Failed \/ path = Failed
           \/ path.next > length.value + 1
        THEN Failed
        ELSE [value |-> [path |-> path.value, hash |-> hash.value,
                         requirement |-> SubSeq(comment.value, path.next, length.value)],
              next |-> comment.next]

ReadSubject(data, at, elements) ==
    LET type == ReadNumber(data, at)
        applications == InTurn(ReadApplication, data, at, elements)
    IN  CASE elements = 0 -> [value |-> OnlyThese(<<>>), next |-> at]
          [] elements > 0 /\ type = Failed -> Failed
          [] elements = 1 /\ type # Failed /\ type.value = SubjectAny ->
                 [value |-> AnyApplication, next |-> type.next]
          [] elements > 0 /\ type # Failed /\ type.value = SubjectTrusted ->
                 IF applications = Failed THEN Failed
                 ELSE [value |-> OnlyThese(applications.value), next |-> applications.next]
          [] OTHER -> Failed

\* The words before a subject: how many elements follow, and where.
ReadHead(data, at) ==
    LET word == ReadNumber(data, at + 8)
    IN  IF \/ word = Failed
           \/ ~Expected(data, at, Numbers(<<0, SubjectTag>>))
           \/ word.value = 0 \/ word.value > MostEntries + 1
           \/ ~Expected(data, at + 12, Number(SubjectLead))
        THEN Failed ELSE [value |-> word.value - 1, next |-> at + 16]

ReadOwner(data, at) ==
    LET head == ReadHead(data, at)
    IN  IF \/ head = Failed
           \/ head.value # 0
           \/ ~Expected(data, head.next, SubjectTrailer)
        THEN Failed ELSE ReadName(data, head.next + Len(SubjectTrailer))

ReadEntry(data, at) ==
    LET head == ReadHead(data, at)
        subject == ReadSubject(data, head.next, head.value)
        name == ReadName(data, subject.next + Len(SubjectTrailer))
        words == ReadNumbers(data, name.next, 3)
        count == words.value[3]
        tags == ReadNumbers(data, words.next, count)
    IN  IF \/ head = Failed
           \/ subject = Failed
           \/ ~Expected(data, subject.next, SubjectTrailer)
           \/ name = Failed
           \/ words = Failed
           \/ count > MostEntries
           \/ tags = Failed
        THEN Failed
        ELSE [value |-> [subject |-> subject.value, name |-> name.value,
                         prefix |-> <<words.value[1], words.value[2]>>, tags |-> tags.value],
              next |-> tags.next]

ParseAcl(data) ==
    LET owner == ReadOwner(data, 1)
        count == ReadNumber(data, owner.next)
        entries == InTurn(ReadEntry, data, count.next, count.value)
    IN  IF \/ owner = Failed
           \/ count = Failed
           \/ count.value > MostEntries
           \/ entries = Failed
           \/ entries.next # Len(data) + 1
        THEN Failed
        ELSE [owner |-> owner.value, entries |-> entries.value]

------------------------------------------------------------------------------
(* The decision of an item. *)

\* `from_blob': an application is trusted by its designated requirement, which says how
\* long it is; the hash that is no longer looked at stays empty.
RequirementMagic == <<250, 222, 12, 0>>

FromBlob(path, requirement) ==
    IF \/ ~Expected(requirement, 1, RequirementMagic)
       \/ ReadNumber(requirement, 5) = Failed
       \/ ReadNumber(requirement, 5).value # Len(requirement)
    THEN Failed
    ELSE [path |-> path, hash |-> Zeros(HashLen), requirement |-> requirement]

\* `ApplicationAccess': anyone, nobody without asking, or these.
Accesses(applications) == {"AllowAny", "Prompt"} \X {<<>>} \cup {"Trusted"} \X applications

SubjectOf(access) == IF access[1] = "AllowAny" THEN AnyApplication ELSE OnlyThese(access[2])

\* A variant for the runs: the applications stand on the entry that stays open.
ForItemAccessSwapped(name, access) ==
    LET Entry(subject, tags) ==
            [subject |-> subject, name |-> name, prefix |-> <<0, 0>>, tags |-> tags]
    IN  [owner |-> name,
         entries |-> <<Entry(SubjectOf(access), Tag35), Entry(AnyApplication, ItemAccess)>>]

\* `for_item_access'
ForItemAccess(name, access) ==
    LET Entry(subject, tags) ==
            [subject |-> subject, name |-> name, prefix |-> <<0, 0>>, tags |-> tags]
    IN  [owner |-> name,
         entries |-> <<Entry(AnyApplication, Tag35), Entry(SubjectOf(access), ItemAccess)>>]

\* `application_access': the first entry for use of the item decides.
ApplicationAccess(blob) ==
    LET governing == SelectSeq(blob.entries, LAMBDA entry : entry.tags = ItemAccess)
        subject == governing[1].subject
    IN  CASE governing = <<>> -> Failed
          [] governing # <<>> /\ subject.any -> <<"AllowAny", <<>>>>
          [] governing # <<>> /\ ~subject.any ->
                 IF subject.applications = <<>> THEN <<"Prompt", <<>>>>
                 ELSE <<"Trusted", subject.applications>>

\* `item_name': the name that all the entries agree on.
ItemName(blob) ==
    IF \A i \in DOMAIN blob.entries : blob.entries[i].name = blob.owner THEN blob.owner
    ELSE Failed

------------------------------------------------------------------------------
(* What the format promises. *)

\* What is written is as long as it was said to be, reads back as it was, and no shorter
\* or longer text of bytes reads as anything.
AclReturns(blob) ==
    LET bytes == AclBytes(blob)
    IN  /\ Len(bytes) = AclLen(blob)
        /\ ParseAcl(bytes) = blob
        /\ \A n \in 0..(Len(bytes) - 1) : ParseAcl(SubSeq(bytes, 1, n)) = Failed
        /\ ParseAcl(Append(bytes, 0)) = Failed

\* The decision that was asked for is the one that the bytes hold: it reads back, under
\* the item's name, and the entry for use of the item is the only one that can keep an
\* application out.
DecisionReturns(name, access) ==
    LET blob == ParseAcl(AclBytes(ForItemAccess(name, access)))
    IN  /\ blob # Failed
        /\ ItemName(blob) = name
        /\ ApplicationAccess(blob) =
               IF access[1] = "Trusted" /\ access[2] = <<>> THEN <<"Prompt", <<>>>> ELSE access
        /\ \A i \in DOMAIN blob.entries :
               ~blob.entries[i].subject.any => blob.entries[i].tags = ItemAccess
=============================================================================
