------------------------------- MODULE Signing -------------------------------
(***************************************************************************)
(* The bytes that are signed: Feed, Denylist and Report::signing_bytes, of *)
(* fields with their length before them (push_field, content.rs).  A       *)
(* signature is good for any content with these bytes.                     *)
(*                                                                         *)
(* A text is a sequence of bytes, and a u64 is one byte instead of eight:  *)
(* lengths and texts are written with the same bytes.  The key and the     *)
(* signature are no content: a signature is checked against the key that   *)
(* the document names.                                                     *)
(***************************************************************************)
EXTENDS FeedNetwork, Lists

CONSTANT NoAvatar

\* Vectors of up to n elements.
UpTo(n, S) == UNION {[1 .. m -> S] : m \in 0 .. n}

Byte == 0 .. 1
Text == UpTo(2, Byte)
Word == {<<>>, <<1>>}
Name == {<<0>>, <<1>>}      \* of a CID, a key, a mode or a schema
U64(n) == <<n>>

\* Mutant of PushField: the fields follow each other without their lengths.
PushBare(field) == field

PushField(field) == U64(Len(field)) \o field

Push(fields) == Flattened([i \in DOMAIN fields |-> PushField(fields[i])])
Counted(texts) == <<U64(Len(texts))>> \o texts

\* sort_by: by name, those of one name as they came; sort of texts that are names
Of(entries, n) ==
    Retained(entries, {entries[i] : i \in {j \in DOMAIN entries : entries[j].cid = n}})
ByCid(entries) == Of(entries, <<0>>) \o Of(entries, <<1>>)
Sorted(names) == Retained(names, {<<0>>}) \o Retained(names, {<<1>>})

-----------------------------------------------------------------------------

\* FeedEntry, with up to one tag and one tool
Entries == [cid: Name, title: Word, tags: UpTo(1, Word), mode: Name,
            tools: UpTo(1, Word)]

\* Feeds with a short profile and up to two entries, or with any and up to one.
Feeds ==
    [kind: {"feed"}, seq: {1}, name: {<<>>}, description: {<<>>}, avatar: {NoAvatar},
     entries: UpTo(2, Entries)]
    \cup
    [kind: {"feed"}, seq: 1 .. 2, name: Text, description: Text,
     avatar: {NoAvatar} \cup Word, entries: {<<>>} \cup
        {<<e>> : e \in {d \in Entries : d.title = <<>> /\ d.tools = <<>>}}]

Denylists ==
    [kind: {"list"}, seq: 1 .. 2, name: Text, updated: Word,
     cids: UpTo(2, Name), keys: UpTo(2, Name)]

Reports == [kind: {"report"}, cid: Name, reason: Text]

\* What a document says, whose order of entries nobody looks at.
Content(d) ==
    CASE d.kind = "feed"   -> [d EXCEPT !.entries = ByCid(@)]
      [] d.kind = "list"   -> [d EXCEPT !.cids = Sorted(@), !.keys = Sorted(@)]
      [] d.kind = "report" -> d

EntryFields(e) ==
    <<e.cid, e.title>> \o Counted(e.tags) \o <<e.mode>> \o Counted(e.tools)

FeedFields(f) ==
    <<<<0>>, U64(f.seq), f.name, f.description, IF f.avatar = NoAvatar THEN <<>> ELSE f.avatar,
      U64(Len(f.entries))>>
    \o Flattened([i \in DOMAIN f.entries |-> EntryFields(f.entries[i])])

DenylistFields(d) ==
    <<<<1>>, d.name, d.updated, U64(d.seq)>> \o Counted(d.cids) \o Counted(d.keys)

ReportFields(r) == <<<<1, 0>>, r.cid, r.reason>>

Fields(d) ==
    CASE d.kind = "feed"   -> FeedFields(d)
      [] d.kind = "list"   -> DenylistFields(d)
      [] d.kind = "report" -> ReportFields(d)

\* signing_bytes, which writes the entries in their order.
SigningBytes(d) == Push(Fields(Content(d)))

\* Feed::verify: an avatar that is there is a CID.
WellFormed(d) == d.kind = "feed" => d.avatar # <<>>

\* The documents that verify.
Documents == {d \in Feeds \cup Denylists \cup Reports : WellFormed(d)}

OneContentPerSignature ==
    Cardinality({SigningBytes(d) : d \in Documents}) = Cardinality({Content(d) : d \in Documents})

\* A signature stands for one content, up to the order of the entries: the same bytes are
\* never read as other fields, other entries or another kind of document that verifies
\* (the length before every field; None and "" as avatar are signed alike, but "" does not
\* verify).  push_field promises this of the fields, the signed documents count on it.
SignedMeansOneThing == air # {} => OneContentPerSignature
==============================================================================
