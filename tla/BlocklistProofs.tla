--------------------------- MODULE BlocklistProofs ---------------------------
(***************************************************************************)
(* From list files to verdicts, for any tree of files, any networks and    *)
(* any lists of dropped categories and files: the records of the database  *)
(* are the lines of the files, list by list, and a request is answered     *)
(* from the lines that cover its address.                                  *)
(***************************************************************************)
EXTENDS Blocklist, IpsetParserProofs

-----------------------------------------------------------------------------
(* The inductive invariant.                                                *)

Ipsets == [file_name : FileNames, sections : Seq(Sections)]

(* The files kept so far are stored with the sections of their own lines.  *)
FilesInv ==
    /\ position \in 1 .. Len(Tree) + 1
    /\ ipsets \in Seq(Ipsets) /\ contents \in Seq(Seq(Lines))
    /\ Len(ipsets) = Len(contents) /\ Len(ipsets) < position
    /\ \A f \in 1 .. Len(ipsets) : \E line : Lists(line, ipsets[f].sections, contents[f])

(* Networks are inserted when all files are there, in the order of their   *)
(* places, and served when all are inserted.                               *)
InsertedInv ==
    /\ stage \in {"parsing", "serving", "failed"}
    /\ inserted \subseteq FilePlaces
    /\ inserted # {} => position > Len(Tree)
    /\ stage = "serving" => inserted = FilePlaces
    /\ \A p \in inserted, q \in Remaining : Precedes(p, q)

Covering(address) == {p \in inserted : address \in Covers[NetworkAt(p)]}

\* What a network contributes to a field of the records of its addresses.
ElementAt(place, key) ==
    IF key = "file_name" THEN ipsets[place[1]].file_name ELSE SectionAt(place).metadata[key]

(* Element i of every array of a record is the one of the i-th place that  *)
(* covers the address, and there are no other elements.                    *)
Stacks(entry, n, at, address) ==
    /\ at \in [1 .. n -> Covering(address)]
    /\ \A i, j \in 1 .. n : i < j => Precedes(at[i], at[j])
    /\ \A p \in Covering(address) : \E i \in 1 .. n : at[i] = p
    /\ entry \in [Fields -> Seq(Text)]
    /\ \A key \in Fields :
          Len(entry[key]) = n /\ \A i \in 1 .. n : entry[key][i] = ElementAt(at[i], key)

RecordOf(address, entry) ==
    \/ entry = NotFound /\ Covering(address) = {}
    \/ \E n \in Nat \ {0} : \E at : Stacks(entry, n, at, address)

RecordInv ==
    /\ DOMAIN database = Addresses
    /\ \A address \in Addresses : \E entry : entry = database[address] /\ RecordOf(address, entry)

(* The last answer is the one the served records give.                     *)
ReplyInv ==
    /\ request \in Addresses \cup {NotFound}
    /\ reply.ip_bad \in {TRUE, FALSE, Unset} /\ reply.labels \in Seq(Text)
    /\ reply.ip_bad # Unset =>
          /\ stage = "serving"
          /\ reply.ip_bad = TRUE <=> request \in Addresses /\ Hit(request) # 0
          /\ reply.ip_bad = TRUE => reply.labels = Labels(database[request], Hit(request))

CountInv ==
    /\ allowed \in Nat /\ answered \in 0 .. MaxRequests
    /\ IsABag(blocked) /\ IsFiniteSet(Blocks)
    /\ allowed + Cardinality(Blocks) = answered

BlocklistInv == ParserInv /\ FilesInv /\ InsertedInv /\ RecordInv /\ ReplyInv /\ CountInv

-----------------------------------------------------------------------------
(* Operators.                                                              *)

(* A line that is a network holds one.                                     *)
LEMMA NetworkOfEntry ==
    ASSUME NEW line \in Lines, line.kind = "network"
    PROVE  line.network \in Networks
  <1>1. line # Ignored /\ line # Malformed
    BY DEF Ignored, Malformed
  <1>2. \A key \in HeaderKeys : \A raw \in Raw[key] : line # Header(key, raw)
    BY DEF Header
  <1>3. line \notin UNION {{Header(key, raw) : raw \in Raw[key]} : key \in HeaderKeys}
    BY <1>2
  <1>4. PICK network \in Networks : line = Entry(network)
    BY <1>1, <1>3 DEF Lines
  <1> QED BY <1>4 DEF Entry

(* A field array is searched from its start.                               *)
LEMMA FirstHit ==
    ASSUME NEW values \in Seq(Text), NEW dropped
    PROVE  /\ First(values, dropped) \in 0 .. Len(values)
           /\ First(values, dropped) = 0 <=> \A i \in 1 .. Len(values) : values[i] \notin dropped
           /\ First(values, dropped) # 0 =>
                 /\ values[First(values, dropped)] \in dropped
                 /\ \A i \in 1 .. Len(values) : values[i] \in dropped => First(values, dropped) <= i
  <1> DEFINE hits == {i \in 1 .. Len(values) : values[i] \in dropped}
  <1>1. First(values, dropped) = IF hits # {} THEN Min(hits) ELSE 0
    BY DEF First, SelectInSeq
  <1>2. Len(values) \in Nat
    BY LenProperties
  <1>3. CASE hits = {}
    BY <1>1, <1>2, <1>3
  <1>4. CASE hits # {}
    <2>1. Min(hits) \in hits /\ \A i \in hits : Min(hits) <= i
      <3>1. hits \subseteq Nat
        BY <1>2
      <3> HIDE DEF hits
      <3> QED BY <1>4, <3>1, FirstPosition
    <2> QED BY <1>1, <1>2, <1>4, <2>1
  <1> QED BY <1>3, <1>4

(* The place of a network, taken apart.                                    *)
LEMMA FilePlace ==
    ASSUME FilesInv, NEW p \in FilePlaces
    PROVE  /\ p[1] \in 1 .. Len(ipsets) /\ p[2] \in Places(ipsets[p[1]].sections) /\ p = <<p[1], p[2]>>
           /\ p[2][1] \in Nat /\ p[2][2] \in Nat
           /\ SectionAt(p) \in Sections /\ NetworkAt(p) \in Networks
  <1>1. PICK f \in DOMAIN ipsets : p \in {f} \X Places(ipsets[f].sections)
    BY DEF FilePlaces
  <1>2. f \in 1 .. Len(ipsets) /\ ipsets[f] \in Ipsets /\ ipsets[f].sections \in Seq(Sections)
    <2>1. f \in 1 .. Len(ipsets)
      BY <1>1, LenProperties DEF FilesInv
    <2>2. ipsets[f] \in Ipsets
      BY <2>1, ElementOfSeq DEF FilesInv
    <2> QED BY <2>1, <2>2 DEF Ipsets
  <1>3. p[1] = f /\ p[2] \in Places(ipsets[f].sections) /\ p = <<p[1], p[2]>>
    BY <1>1
  <1>4. PICK s \in DOMAIN ipsets[f].sections : \E n \in DOMAIN ipsets[f].sections[s].networks : p[2] = <<s, n>>
    BY <1>3, PlaceInSection
  <1>5. PICK n \in DOMAIN ipsets[f].sections[s].networks : p[2] = <<s, n>>
    BY <1>4
  <1>6. s \in Nat /\ ipsets[f].sections[s] \in Sections
    <2>1. s \in 1 .. Len(ipsets[f].sections) /\ Len(ipsets[f].sections) \in Nat
      BY <1>2, LenProperties
    <2> QED BY <1>2, <2>1, ElementOfSeq
  <1>7. n \in Nat /\ ipsets[f].sections[s].networks[n] \in Networks
    <2>1. ipsets[f].sections[s].networks \in Seq(Networks)
      BY <1>6 DEF Sections
    <2>2. n \in 1 .. Len(ipsets[f].sections[s].networks) /\ Len(ipsets[f].sections[s].networks) \in Nat
      BY <2>1, LenProperties
    <2> QED BY <2>1, <2>2, ElementOfSeq
  <1>8. SectionAt(p) = ipsets[f].sections[s] /\ NetworkAt(p) = ipsets[f].sections[s].networks[n]
    BY <1>3, <1>5 DEF SectionAt, NetworkAt
  <1> QED BY <1>2, <1>3, <1>5, <1>6, <1>7, <1>8

(* The record of a section.                                                *)
LEMMA RecordOfSection ==
    ASSUME FilesInv, NEW p \in FilePlaces, NEW value,
           value = record(ipsets[p[1]].file_name, SectionAt(p).metadata)
    PROVE  /\ value \in [Fields -> Seq(Text)]
           /\ \A key \in Fields : value[key] = <<ElementAt(p, key)>> /\ ElementAt(p, key) \in Text
  <1>1. p[1] \in 1 .. Len(ipsets) /\ SectionAt(p) \in Sections
    BY FilePlace
  <1>2. ipsets[p[1]].file_name \in Text
    <2>1. ipsets[p[1]] \in Ipsets
      BY <1>1, ElementOfSeq DEF FilesInv
    <2> QED BY <2>1 DEF Ipsets, Text
  <1>3. SectionAt(p).metadata \in [HeaderKeys -> Text]
    <2>1. SectionAt(p).metadata \in Metadata
      BY <1>1 DEF Sections
    <2> QED BY <2>1 DEF Metadata, Text
  <1>4. ASSUME NEW key \in Fields
        PROVE  value[key] = <<ElementAt(p, key)>> /\ ElementAt(p, key) \in Text
    <2>1. CASE key = "file_name"
      BY <1>2, <2>1 DEF record, ElementAt, Fields
    <2>2. CASE key # "file_name"
      <3>1. key \in HeaderKeys
        BY <2>2 DEF Fields
      <3> QED BY <1>3, <2>2, <3>1 DEF record, ElementAt, Fields
    <2> QED BY <2>1, <2>2
  <1>5. DOMAIN value = Fields /\ value = [key \in Fields |-> value[key]]
    BY DEF record
  <1>6. ASSUME NEW key \in Fields PROVE value[key] \in Seq(Text)
    <2>1. value[key] = <<ElementAt(p, key)>> /\ ElementAt(p, key) \in Text
      BY <1>4
    <2> QED BY <2>1
  <1> QED BY <1>4, <1>5, <1>6
-----------------------------------------------------------------------------
(* One network inserted.                                                   *)

(* The address's places, when `place` is inserted.                         *)
LEMMA CoveringGrows ==
    ASSUME NEW place, ipsets' = ipsets, inserted' = inserted \cup {place}, NEW address
    PROVE  /\ address \in Covers[NetworkAt(place)] => Covering(address)' = Covering(address) \cup {place}
           /\ address \notin Covers[NetworkAt(place)] => Covering(address)' = Covering(address)
           /\ \A p, key : ElementAt(p, key)' = ElementAt(p, key)
  BY DEF Covering, NetworkAt, SectionAt, ElementAt

(* The first network that covers an address gives it a record.             *)
LEMMA StackStarts ==
    ASSUME FilesInv, NEW place \in FilePlaces, ipsets' = ipsets, inserted' = inserted \cup {place},
           NEW address, address \in Covers[NetworkAt(place)], Covering(address) = {},
           NEW value, value = record(ipsets[place[1]].file_name, SectionAt(place).metadata)
    PROVE  RecordOf(address, value)'
  <1> DEFINE at == [i \in 1 .. 1 |-> place]
  <1>1. Covering(address)' = {place} /\ \A p, key : ElementAt(p, key)' = ElementAt(p, key)
    BY CoveringGrows
  <1>2. value \in [Fields -> Seq(Text)] /\ \A key \in Fields : value[key] = <<ElementAt(place, key)>>
    BY RecordOfSection
  <1>3. at \in [1 .. 1 -> Covering(address)'] /\ at[1] = place
    BY <1>1
  <1>4. \A i, j \in 1 .. 1 : ~(i < j)
    OBVIOUS
  <1>5. ASSUME NEW key \in Fields
        PROVE  Len(value[key]) = 1 /\ \A i \in 1 .. 1 : value[key][i] = ElementAt(at[i], key)'
    <2>1. value[key] = <<ElementAt(place, key)>>
      BY <1>2
    <2>2. Len(value[key]) = 1 /\ value[key][1] = ElementAt(place, key)
      BY <2>1
    <2>3. ElementAt(at[1], key)' = ElementAt(place, key)
      BY <1>1, <1>3
    <2> QED BY <2>2, <2>3
  <1> HIDE DEF at
  <1>6. Stacks(value, 1, at, address)'
    BY <1>1, <1>2, <1>3, <1>4, <1>5 DEF Stacks
  <1> QED BY <1>6 DEF RecordOf

(* Another one, after all others, goes on top.                             *)
LEMMA StackGrows ==
    ASSUME FilesInv, NEW place \in FilePlaces, ipsets' = ipsets, inserted' = inserted \cup {place},
           \A p \in inserted : Precedes(p, place),
           NEW address, address \in Covers[NetworkAt(place)],
           NEW entry, NEW n \in Nat \ {0}, NEW at, Stacks(entry, n, at, address),
           NEW value, value = record(ipsets[place[1]].file_name, SectionAt(place).metadata)
    PROVE  RecordOf(address, MergeDeep(entry, value))'
  <1> DEFINE more == [i \in 1 .. n + 1 |-> IF i = n + 1 THEN place ELSE at[i]]
             new == MergeDeep(entry, value)
  <1>1. Covering(address)' = Covering(address) \cup {place} /\ \A p, key : ElementAt(p, key)' = ElementAt(p, key)
    BY CoveringGrows
  <1>2. /\ value \in [Fields -> Seq(Text)]
        /\ \A key \in Fields : value[key] = <<ElementAt(place, key)>> /\ ElementAt(place, key) \in Text
    BY RecordOfSection
  <1>3. /\ at \in [1 .. n -> Covering(address)]
        /\ \A i, j \in 1 .. n : i < j => Precedes(at[i], at[j])
        /\ \A p \in Covering(address) : \E i \in 1 .. n : at[i] = p
        /\ entry \in [Fields -> Seq(Text)]
        /\ \A key \in Fields :
              Len(entry[key]) = n /\ \A i \in 1 .. n : entry[key][i] = ElementAt(at[i], key)
    BY DEF Stacks
  <1>4. n + 1 \in Nat \ {0} /\ 1 .. n + 1 = (1 .. n) \cup {n + 1} /\ n + 1 \notin 1 .. n
    OBVIOUS
  <1>5. /\ more \in [1 .. n + 1 -> Covering(address)'] /\ more[n + 1] = place
        /\ \A i \in 1 .. n : more[i] = at[i]
    BY <1>1, <1>3, <1>4
  <1> HIDE DEF more
  <1>6. ASSUME NEW i \in 1 .. n + 1, NEW j \in 1 .. n + 1, i < j PROVE Precedes(more[i], more[j])
    <2>1. i \in 1 .. n
      BY <1>6
    <2>2. CASE j \in 1 .. n
      BY <1>3, <1>5, <1>6, <2>1, <2>2
    <2>3. CASE j = n + 1
      <3>1. at[i] \in inserted
        BY <1>3, <2>1 DEF Covering
      <3> QED BY <1>5, <2>1, <2>3, <3>1
    <2> QED BY <1>4, <2>2, <2>3
  <1>7. ASSUME NEW p \in Covering(address)' PROVE \E i \in 1 .. n + 1 : more[i] = p
    <2>1. CASE p = place
      BY <1>4, <1>5, <2>1
    <2>2. CASE p \in Covering(address)
      <3>1. PICK i \in 1 .. n : at[i] = p
        BY <1>3, <2>2
      <3> QED BY <1>4, <1>5, <3>1
    <2> QED BY <1>1, <2>1, <2>2
  <1>8. ASSUME NEW key \in Fields
        PROVE  /\ new[key] \in Seq(Text) /\ Len(new[key]) = n + 1
               /\ \A i \in 1 .. n + 1 : new[key][i] = ElementAt(more[i], key)'
    <2> DEFINE element == ElementAt(place, key)
    <2>1. entry[key] \in Seq(Text) /\ Len(entry[key]) = n /\ element \in Text
      BY <1>2, <1>3
    <2>2. new[key] = entry[key] \o <<element>>
      BY <1>2 DEF MergeDeep
    <2> HIDE DEF element, new
    <2>3. <<element>> \in Seq(Text) /\ Len(<<element>>) = 1 /\ <<element>>[1] = element
      BY <2>1
    <2>4. /\ new[key] \in Seq(Text) /\ Len(new[key]) = n + 1
          /\ \A i \in 1 .. n + 1 :
                new[key][i] = IF i <= n THEN entry[key][i] ELSE <<element>>[i - n]
      BY <2>1, <2>2, <2>3, ConcatProperties
    <2>5. \A i \in 1 .. n : new[key][i] = ElementAt(more[i], key)'
      <3> SUFFICES ASSUME NEW i \in 1 .. n PROVE new[key][i] = ElementAt(more[i], key)'
        OBVIOUS
      <3>1. new[key][i] = entry[key][i]
        BY <1>4, <2>4
      <3>2. entry[key][i] = ElementAt(at[i], key)
        BY <1>3
      <3>3. ElementAt(more[i], key)' = ElementAt(at[i], key)
        BY <1>1, <1>5
      <3> QED BY <3>1, <3>2, <3>3
    <2>6. new[key][n + 1] = element
      <3>1. ~(n + 1 <= n) /\ (n + 1) - n = 1 /\ n + 1 \in 1 .. n + 1
        OBVIOUS
      <3> QED BY <2>3, <2>4, <3>1
    <2>7. ElementAt(more[n + 1], key)' = element
      BY <1>1, <1>5 DEF element
    <2> QED BY <1>4, <2>4, <2>5, <2>6, <2>7
  <1>9. new \in [Fields -> Seq(Text)]
    <2>1. new = [key \in Fields |-> new[key]]
      BY DEF MergeDeep
    <2> HIDE DEF new
    <2> QED BY <1>8, <2>1
  <1> HIDE DEF new
  <1>10. Stacks(new, n + 1, more, address)'
    BY <1>5, <1>6, <1>7, <1>8, <1>9 DEF Stacks
  <1> QED BY <1>4, <1>10 DEF RecordOf, new

(* Inserting a network keeps every record complete and in order.           *)
LEMMA InsertKeepsRecords ==
    ASSUME FilesInv, InsertedInv, RecordInv, NEW place \in Remaining, Insert(place)
    PROVE  RecordInv'
  <1>1. PICK value : value = record(ipsets[place[1]].file_name, SectionAt(place).metadata)
    OBVIOUS
  <1>2. /\ ipsets' = ipsets /\ inserted' = inserted \cup {place}
        /\ database' = InsertWith(NetworkAt(place), value)
    BY <1>1 DEF Insert, fileVars
  <1>3. place \in FilePlaces /\ \A p \in inserted : Precedes(p, place)
    BY DEF InsertedInv, Remaining
  <1>4. DOMAIN database' = Addresses
    BY <1>2 DEF InsertWith
  <1>5. ASSUME NEW address \in Addresses, NEW entry, entry = database'[address]
        PROVE  RecordOf(address, entry)'
    <2>1. PICK old : old = database[address] /\ RecordOf(address, old)
      BY DEF RecordInv
    <2>2. RecordOf(address, old)
      BY <2>1
    <2>3. CASE address \notin Covers[NetworkAt(place)]
      <3>1. entry = old
        BY <1>2, <1>5, <2>1, <2>3 DEF InsertWith
      <3>2. Covering(address)' = Covering(address) /\ \A p, key : ElementAt(p, key)' = ElementAt(p, key)
        BY <1>2, <2>3, CoveringGrows
      <3> QED BY <2>2, <3>1, <3>2 DEF RecordOf, Stacks
    <2>4. CASE address \in Covers[NetworkAt(place)] /\ old = NotFound
      <3>1. entry = value
        BY <1>2, <1>5, <2>1, <2>4 DEF InsertWith
      <3>2. Covering(address) = {}
        <4> SUFFICES ASSUME NEW n \in Nat \ {0}, NEW at, Stacks(old, n, at, address) PROVE FALSE
          BY <2>2 DEF RecordOf
        <4>1. old \in [Fields -> Seq(Text)]
          BY DEF Stacks
        <4> QED BY <2>4, <4>1, BlocklistAssumption
      <3>3. RecordOf(address, value)'
        BY <1>1, <1>2, <1>3, <2>4, <3>2, StackStarts
      <3> QED BY <3>1, <3>3
    <2>5. CASE address \in Covers[NetworkAt(place)] /\ old # NotFound
      <3>1. entry = MergeDeep(old, value)
        BY <1>2, <1>5, <2>1, <2>5 DEF InsertWith
      <3>2. PICK n \in Nat \ {0} : \E at : Stacks(old, n, at, address)
        BY <2>2, <2>5 DEF RecordOf
      <3>3. PICK at : Stacks(old, n, at, address)
        BY <3>2
      <3>4. RecordOf(address, MergeDeep(old, value))'
        BY <1>1, <1>2, <1>3, <2>5, <3>3, StackGrows
      <3> QED BY <3>1, <3>4
    <2> QED BY <2>3, <2>4, <2>5
  <1>6. ASSUME NEW address \in Addresses
        PROVE  \E entry : entry = database'[address] /\ RecordOf(address, entry)'
    <2>1. PICK entry : entry = database'[address]
      OBVIOUS
    <2> QED BY <1>5, <2>1
  <1> QED BY <1>4, <1>6 DEF RecordInv

(* It takes the networks in their order.                                   *)
LEMMA InsertKeepsOrder ==
    ASSUME InsertedInv, NEW place \in Remaining, Insert(place)
    PROVE  InsertedInv'
  <1>1. /\ ipsets' = ipsets /\ inserted' = inserted \cup {place} /\ stage' = stage /\ position' = position
        /\ stage = "parsing" /\ position > Len(Tree)
        /\ \A later \in Remaining \ {place} : Precedes(place, later)
    BY DEF Insert, fileVars, AllParsed
  <1>2. FilePlaces' = FilePlaces
    BY <1>1 DEF FilePlaces
  <1>3. Remaining' = Remaining \ {place}
    BY <1>1, <1>2 DEF Remaining
  <1>4. ASSUME NEW p \in inserted', NEW q \in Remaining' PROVE Precedes(p, q)
    BY <1>1, <1>3, <1>4 DEF InsertedInv
  <1> QED BY <1>1, <1>2, <1>4 DEF InsertedInv, Remaining

(* The records depend on nothing else.                                     *)
LEMMA RecordsStay ==
    ASSUME RecordInv, UNCHANGED <<ipsets, inserted, database>>
    PROVE  RecordInv'
  <1>1. \A address : Covering(address)' = Covering(address)
    BY DEF Covering, NetworkAt, SectionAt
  <1>2. \A p, key : ElementAt(p, key)' = ElementAt(p, key)
    BY DEF ElementAt, SectionAt
  <1>3. ASSUME NEW address, NEW entry, RecordOf(address, entry) PROVE RecordOf(address, entry)'
    BY <1>1, <1>2, <1>3 DEF RecordOf, Stacks
  <1> QED BY <1>3 DEF RecordInv

-----------------------------------------------------------------------------
(* The steps of the parser.                                                *)

(* A file that parsed to its end is stored with all its networks.          *)
LEMMA KeepFileKeepsFiles ==
    ASSUME ParserInv, FilesInv, KeepFile
    PROVE  FilesInv'
  <1> DEFINE N == Len(ipsets)
             file == [file_name |-> Tree[position].file_name, sections |-> sections]
  <1>1. /\ position \in 1 .. Len(Tree) /\ outcome = "ok" /\ position' = position + 1
        /\ ipsets' = Append(ipsets, file) /\ contents' = Append(contents, content)
    BY DEF KeepFile, NextFile, Parsing, AtBlob, FilesInv
  <1>2. content \in Seq(Lines) /\ sections \in Seq(Sections) /\ metadata \in Metadata /\ networks = <<>>
    BY <1>1 DEF ParserInv, ParserTypeOK, Sections
  <1>3. PICK line : Lists(line, sections, content)
    <2>1. Parsed = Append(sections, Section(metadata, <<>>))
      BY <1>2 DEF Parsed
    <2>2. SamePlaces(sections, Parsed)
      BY <1>2, <2>1, EmptySectionAddsNothing
    <2>3. PICK line : Lists(line, Parsed, content)
      BY <1>1 DEF ParserInv
    <2> QED BY <2>2, <2>3 DEF Lists, SamePlaces
  <1>4. file \in Ipsets
    <2>1. position \in DOMAIN Tree
      BY <1>1, BlocklistAssumption, LenProperties
    <2> QED BY <1>2, <2>1 DEF Ipsets, FileNames
  <1> HIDE DEF file
  <1>5. ipsets \in Seq(Ipsets) /\ contents \in Seq(Seq(Lines)) /\ N \in Nat /\ N = Len(contents)
    BY LenProperties DEF FilesInv
  <1>6. /\ ipsets' \in Seq(Ipsets) /\ Len(ipsets') = N + 1 /\ ipsets'[N + 1] = file
        /\ \A f \in 1 .. N : ipsets'[f] = ipsets[f]
    BY <1>1, <1>4, <1>5, AppendProperties
  <1>7. /\ contents' \in Seq(Seq(Lines)) /\ Len(contents') = N + 1 /\ contents'[N + 1] = content
        /\ \A f \in 1 .. N : contents'[f] = contents[f]
    BY <1>1, <1>2, <1>5, AppendProperties
  <1>8. position' \in 1 .. Len(Tree) + 1 /\ N + 1 < position'
    <2>1. Len(Tree) \in Nat /\ N < position
      BY BlocklistAssumption, LenProperties DEF FilesInv
    <2> HIDE DEF N
    <2> QED BY <1>1, <1>5, <2>1
  <1>9. ASSUME NEW f \in 1 .. N + 1
        PROVE  \E other : Lists(other, ipsets'[f].sections, contents'[f])
    <2>1. CASE f = N + 1
      <3>1. ipsets'[f].sections = sections
        BY <1>6, <2>1 DEF file
      <3> QED BY <1>3, <1>7, <2>1, <3>1
    <2>2. CASE f \in 1 .. N
      BY <1>6, <1>7, <2>2 DEF FilesInv
    <2> QED BY <1>5, <2>1, <2>2
  <1> QED BY <1>6, <1>7, <1>8, <1>9 DEF FilesInv

(* Nothing was inserted before the last file, and no record was made.      *)
LEMMA KeepFileKeepsRecords ==
    ASSUME FilesInv, InsertedInv, RecordInv, KeepFile
    PROVE  InsertedInv' /\ RecordInv'
  <1>1. /\ stage = "parsing" /\ position \in Nat /\ position <= Len(Tree) /\ Len(Tree) \in Nat
        /\ stage' = stage /\ UNCHANGED <<inserted, database>>
    BY BlocklistAssumption, LenProperties
    DEF KeepFile, NextFile, Parsing, AtBlob, writerVars, FilesInv
  <1>2. inserted = {}
    BY <1>1 DEF InsertedInv
  <1>3. InsertedInv'
    BY <1>1, <1>2 DEF InsertedInv
  <1>4. ASSUME NEW address \in Addresses
        PROVE  database'[address] = NotFound /\ Covering(address)' = {}
    <2>1. Covering(address) = {} /\ Covering(address)' = {}
      BY <1>1, <1>2 DEF Covering
    <2>2. RecordOf(address, database[address])
      BY DEF RecordInv
    <2>3. database[address] = NotFound
      <3> SUFFICES ASSUME NEW n \in Nat \ {0}, NEW at, Stacks(database[address], n, at, address) PROVE FALSE
        BY <2>2 DEF RecordOf
      <3>1. 1 \in 1 .. n /\ at \in [1 .. n -> Covering(address)]
        BY DEF Stacks
      <3> QED BY <2>1, <3>1
    <2> QED BY <1>1, <2>1, <2>3
  <1>5. DOMAIN database' = Addresses
    BY <1>1 DEF RecordInv
  <1> QED BY <1>3, <1>4, <1>5 DEF RecordInv, RecordOf

-----------------------------------------------------------------------------
(* The requests.                                                           *)

(* The arrays of a record have the same length, so that the index of a     *)
(* match is one of every array.                                            *)
LEMMA RecordIsAligned ==
    ASSUME RecordInv, NEW address \in Addresses, database[address] # NotFound
    PROVE  /\ database[address] \in [Fields -> Seq(Text)]
           /\ \E n \in Nat \ {0} : \A key \in Fields : Len(database[address][key]) = n
  <1>1. PICK entry : entry = database[address] /\ RecordOf(address, entry)
    BY DEF RecordInv
  <1>2. PICK n \in Nat \ {0} : \E at : Stacks(entry, n, at, address)
    BY <1>1 DEF RecordOf
  <1>3. PICK at : Stacks(entry, n, at, address)
    BY <1>2
  <1> QED BY <1>1, <1>3 DEF Stacks

(* The fields a verdict reads.                                             *)
LEMMA FieldsRead ==
    "file_name" \in Fields /\ "Maintainer" \in Fields /\ "Category" \in Fields
  BY DEF Fields, HeaderKeys

(* The labels of a match are elements of the record.                       *)
LEMMA HitIsAnElement ==
    ASSUME RecordInv, NEW address \in Addresses, Hit(address) # 0
    PROVE  LET entry == database[address]
               hit == Hit(address)
           IN  /\ entry \in [Fields -> Seq(Text)] /\ hit = FindMatch(entry) /\ hit \in Nat \ {0}
               /\ \A key \in Fields : hit \in 1 .. Len(entry[key])
               /\ Labels(entry, hit) =
                     <<entry["file_name"][hit], entry["Maintainer"][hit], entry["Category"][hit]>>
               /\ Labels(entry, hit) \in Seq(Text)
  <1> DEFINE entry == database[address]
             hit == Hit(address)
             category == First(entry["Category"], drop_categories)
             name == First(entry["file_name"], drop_file_names)
  <1>1. entry # NotFound /\ hit = FindMatch(entry)
    BY DEF Hit
  <1>2. entry \in [Fields -> Seq(Text)]
    BY <1>1, RecordIsAligned
  <1>3. PICK n \in Nat \ {0} : \A key \in Fields : Len(entry[key]) = n
    BY <1>1, RecordIsAligned
  <1>4. hit = IF category # 0 THEN category ELSE name
    BY <1>1 DEF FindMatch
  <1> HIDE DEF entry, hit
  <1>5. category \in 0 .. n /\ name \in 0 .. n
    <2>1. entry["Category"] \in Seq(Text) /\ entry["file_name"] \in Seq(Text)
      BY <1>2, FieldsRead
    <2>2. Len(entry["Category"]) = n /\ Len(entry["file_name"]) = n
      BY <1>3, FieldsRead
    <2> QED BY <2>1, <2>2, FirstHit
  <1> HIDE DEF category, name
  <1>6. hit \in 1 .. n
    <2>1. hit # 0
      BY DEF hit
    <2> QED BY <1>4, <1>5, <2>1
  <1>7. ASSUME NEW key \in Fields
        PROVE  hit \in 1 .. Len(entry[key]) /\ entry[key][hit] \in Text /\ field(entry[key], hit) = entry[key][hit]
    <2>1. entry[key] \in Seq(Text) /\ Len(entry[key]) = n
      BY <1>2, <1>3
    <2>2. hit \in DOMAIN entry[key]
      BY <1>6, <2>1, LenProperties
    <2> QED BY <1>6, <2>1, <2>2, ElementOfSeq DEF field
  <1>8. Labels(entry, hit) = <<entry["file_name"][hit], entry["Maintainer"][hit], entry["Category"][hit]>>
    BY <1>7, FieldsRead DEF Labels
  <1>9. Labels(entry, hit) \in Seq(Text)
    BY <1>7, <1>8, FieldsRead
  <1> QED BY <1>1, <1>2, <1>6, <1>7, <1>8, <1>9 DEF entry, hit

(* The counter of its labels is the only one a block changes.              *)
LEMMA BlockAddsOne ==
    ASSUME IsABag(blocked), NEW labels, blocked' = blocked (+) SetToBag({labels})
    PROVE  /\ DOMAIN blocked' = DOMAIN blocked \cup {labels}
           /\ blocked'[labels] = IF labels \in DOMAIN blocked THEN blocked[labels] + 1 ELSE 1
           /\ \A other \in DOMAIN blocked \ {labels} : blocked'[other] = blocked[other]
           /\ blocked' = [other \in DOMAIN blocked' |-> blocked'[other]]
  <1> DEFINE one == SetToBag({labels})
  <1>1. \A other \in DOMAIN blocked : blocked[other] \in Nat /\ blocked[other] > 0
    BY DEF IsABag
  <1>2. DOMAIN one = {labels} /\ one[labels] = 1
    BY DEF SetToBag
  <1> HIDE DEF one
  <1>3. blocked' = [other \in DOMAIN blocked \cup {labels} |->
                       (IF other \in DOMAIN blocked THEN blocked[other] ELSE 0)
                          + (IF other \in DOMAIN one THEN one[other] ELSE 0)]
    BY <1>2 DEF (+), one
  <1>4. DOMAIN blocked' = DOMAIN blocked \cup {labels}
    BY <1>3
  <1>5. blocked'[labels] = IF labels \in DOMAIN blocked THEN blocked[labels] + 1 ELSE 1
    BY <1>1, <1>2, <1>3
  <1>6. ASSUME NEW other \in DOMAIN blocked \ {labels} PROVE blocked'[other] = blocked[other]
    <2>1. other \in DOMAIN blocked /\ other \notin DOMAIN one
      BY <1>2
    <2>2. blocked'[other] = blocked[other] + 0
      BY <1>3, <2>1
    <2>3. blocked[other] \in Nat
      BY <1>1, <2>1
    <2> QED BY <2>2, <2>3
  <1>7. blocked' = [other \in DOMAIN blocked' |-> blocked'[other]]
    BY <1>3
  <1> QED BY <1>4, <1>5, <1>6, <1>7

(* One more block is counted.                                              *)
LEMMA BlockIsCounted ==
    ASSUME IsABag(blocked), IsFiniteSet(Blocks), NEW labels, blocked' = blocked (+) SetToBag({labels})
    PROVE  IsABag(blocked') /\ IsFiniteSet(Blocks') /\ Cardinality(Blocks') = Cardinality(Blocks) + 1
  <1> DEFINE count == IF labels \in DOMAIN blocked THEN blocked[labels] + 1 ELSE 1
  <1>1. \A other \in DOMAIN blocked : blocked[other] \in Nat /\ blocked[other] > 0
    BY DEF IsABag
  <1>2. count \in Nat \ {0}
    BY <1>1
  <1>3. /\ DOMAIN blocked' = DOMAIN blocked \cup {labels} /\ blocked'[labels] = count
        /\ \A other \in DOMAIN blocked \ {labels} : blocked'[other] = blocked[other]
        /\ blocked' = [other \in DOMAIN blocked' |-> blocked'[other]]
    BY BlockAddsOne
  <1>4. IsABag(blocked')
    <2>1. \A other \in DOMAIN blocked' : blocked'[other] \in {n \in Nat : n > 0}
      <3> SUFFICES ASSUME NEW other \in DOMAIN blocked' PROVE blocked'[other] \in {n \in Nat : n > 0}
        OBVIOUS
      <3>1. CASE other = labels
        BY <1>2, <1>3, <3>1
      <3>2. CASE other # labels
        BY <1>1, <1>3, <3>2
      <3> QED BY <3>1, <3>2
    <2>2. blocked' \in [DOMAIN blocked' -> {n \in Nat : n > 0}]
      BY <1>3, <2>1
    <2> QED BY <2>2 DEF IsABag
  <1>5. labels \in DOMAIN blocked => count = blocked[labels] + 1
    OBVIOUS
  <1>6. labels \notin DOMAIN blocked => count = 1
    OBVIOUS
  <1> HIDE DEF count
  <1>7. <<labels, count>> \notin Blocks
    <2> SUFFICES ASSUME NEW other \in DOMAIN blocked, <<labels, count>> \in {other} \X (1 .. blocked[other])
                 PROVE  FALSE
      BY DEF Blocks
    <2>1. labels = other /\ count \in 1 .. blocked[labels]
      OBVIOUS
    <2> QED BY <1>1, <1>5, <2>1
  <1>8. Blocks' = Blocks \cup {<<labels, count>>}
    <2>1. ASSUME NEW block \in Blocks PROVE block \in Blocks'
      <3>1. PICK other \in DOMAIN blocked : block \in {other} \X (1 .. blocked[other])
        BY DEF Blocks
      <3>2. blocked[other] \in Nat /\ blocked'[other] \in Nat /\ blocked[other] <= blocked'[other]
        BY <1>1, <1>2, <1>3, <1>5
      <3>3. block \in {other} \X (1 .. blocked'[other]) /\ other \in DOMAIN blocked'
        BY <1>3, <3>1, <3>2
      <3> QED BY <3>3 DEF Blocks
    <2>2. <<labels, count>> \in Blocks'
      <3>1. <<labels, count>> \in {labels} \X (1 .. blocked'[labels]) /\ labels \in DOMAIN blocked'
        BY <1>2, <1>3
      <3> QED BY <3>1 DEF Blocks
    <2>3. ASSUME NEW block \in Blocks', block # <<labels, count>> PROVE block \in Blocks
      <3>1. PICK other \in DOMAIN blocked' : block \in {other} \X (1 .. blocked'[other])
        BY DEF Blocks
      <3>2. block = <<block[1], block[2]>> /\ block[1] = other /\ block[2] \in 1 .. blocked'[other]
        BY <3>1
      <3>3. CASE other # labels
        BY <1>3, <3>1, <3>3 DEF Blocks
      <3>4. CASE other = labels
        <4>1. block[2] \in 1 .. count /\ block[2] # count
          BY <1>3, <2>3, <3>2, <3>4
        <4>2. labels \in DOMAIN blocked
          BY <1>2, <1>6, <4>1
        <4>3. block[2] \in 1 .. blocked[labels]
          BY <1>1, <1>5, <4>1, <4>2
        <4>4. block \in {labels} \X (1 .. blocked[labels])
          BY <3>2, <3>4, <4>3
        <4> QED BY <4>2, <4>4 DEF Blocks
      <3> QED BY <3>3, <3>4
    <2> QED BY <2>1, <2>2, <2>3
  <1>9. /\ IsFiniteSet(Blocks \cup {<<labels, count>>})
        /\ Cardinality(Blocks \cup {<<labels, count>>}) = Cardinality(Blocks) + 1
    BY <1>7, FS_AddElement
  <1> QED BY <1>4, <1>8, <1>9

(* What the last request leaves alone stays as it was.                     *)
LEMMA RequestKeepsFiles ==
    ASSUME ParserInv, FilesInv, InsertedInv, RecordInv,
           UNCHANGED <<parseVars, stage, position, fileVars, writerVars>>
    PROVE  ParserInv' /\ FilesInv' /\ InsertedInv' /\ RecordInv'
  <1>1. /\ UNCHANGED parseVars
        /\ UNCHANGED <<stage, position, ipsets, contents, inserted, database>>
    BY DEF fileVars, writerVars
  <1>2. ParserInv'
    BY <1>1, ParserInvKeeps
  <1>3. FilesInv'
    BY <1>1 DEF FilesInv
  <1>4. InsertedInv'
    BY <1>1 DEF InsertedInv, FilePlaces, Remaining
  <1>5. RecordInv'
    BY <1>1, RecordsStay
  <1> QED BY <1>2, <1>3, <1>4, <1>5

(* Every request is answered from the records and counted once.            *)
LEMMA HandleKeepsReplies ==
    ASSUME RecordInv, ReplyInv, CountInv, Handle
    PROVE  ReplyInv' /\ CountInv'
  <1>1. allowed \in Nat /\ answered \in Nat /\ IsFiniteSet(Blocks) /\ Cardinality(Blocks) \in Nat
    BY BlocklistAssumption, FS_CardinalityType DEF CountInv
  <1>2. ASSUME UNCHANGED blocked PROVE Blocks' = Blocks
    BY <1>2 DEF Blocks
  <1>3. ASSUME NEW address \in Addresses \cup {NotFound}, NEW ip_bad, NEW labels, Answer(address, ip_bad, labels)
        PROVE  /\ stage = "serving" /\ UNCHANGED <<stage, database>>
               /\ request' = address /\ reply'.ip_bad = ip_bad /\ reply'.labels = labels
               /\ answered' \in 0 .. MaxRequests /\ answered' = answered + 1
    BY <1>3, BlocklistAssumption DEF Answer, CountInv, writerVars
  <1>4. ASSUME NEW address \in Addresses, AllowAddress(address)
        PROVE  ReplyInv' /\ CountInv'
    <2>1. /\ Answer(address, FALSE, NoLabels) /\ Hit(address) = 0
          /\ allowed' = allowed + 1 /\ UNCHANGED blocked
      BY <1>4 DEF AllowAddress
    <2>2. /\ stage = "serving" /\ UNCHANGED <<stage, database>>
          /\ request' = address /\ reply'.ip_bad = FALSE /\ reply'.labels = NoLabels
          /\ answered' \in 0 .. MaxRequests /\ answered' = answered + 1
      BY <1>3, <2>1
    <2>3. NoLabels \in Seq(Text)
      BY EmptySeq DEF NoLabels
    <2>4. ReplyInv'
      <3>1. Hit(address)' = Hit(address)
        BY <2>2 DEF Hit
      <3>2. Hit(request)' = 0
        BY <2>1, <2>2, <3>1
      <3> QED BY <2>2, <2>3, <3>2 DEF ReplyInv
    <2>5. CountInv'
      BY <1>1, <1>2, <2>1, <2>2 DEF CountInv
    <2> QED BY <2>4, <2>5
  <1>5. ASSUME NEW address \in Addresses, BlockAddress(address)
        PROVE  ReplyInv' /\ CountInv'
    <2>1. PICK labels : labels = Labels(database[address], Hit(address))
      OBVIOUS
    <2>2. /\ Answer(address, TRUE, labels) /\ Hit(address) # 0
          /\ blocked' = blocked (+) SetToBag({labels}) /\ UNCHANGED allowed
      BY <1>5, <2>1 DEF BlockAddress
    <2>3. /\ stage = "serving" /\ UNCHANGED <<stage, database>>
          /\ request' = address /\ reply'.ip_bad = TRUE /\ reply'.labels = labels
          /\ answered' \in 0 .. MaxRequests /\ answered' = answered + 1
      BY <1>3, <2>2
    <2>4. labels \in Seq(Text)
      BY <2>1, <2>2, HitIsAnElement
    <2>5. Hit(address)' = Hit(address)
      BY <2>3 DEF Hit
    <2>6. Labels(database[address], Hit(address))' = labels
      BY <2>1, <2>3, <2>5
    <2>7. ReplyInv'
      BY <2>2, <2>3, <2>4, <2>5, <2>6 DEF ReplyInv
    <2>8. IsABag(blocked') /\ IsFiniteSet(Blocks') /\ Cardinality(Blocks') = Cardinality(Blocks) + 1
      BY <2>2, BlockIsCounted DEF CountInv
    <2>9. CountInv'
      BY <1>1, <2>2, <2>3, <2>8 DEF CountInv
    <2> QED BY <2>7, <2>9
  <1>6. CASE AllowIPv6
    <2>1. Answer(NotFound, FALSE, NoLabels) /\ allowed' = allowed + 1 /\ UNCHANGED blocked
      BY <1>6 DEF AllowIPv6
    <2>2. /\ stage = "serving" /\ UNCHANGED <<stage, database>>
          /\ request' = NotFound /\ reply'.ip_bad = FALSE /\ reply'.labels = NoLabels
          /\ answered' \in 0 .. MaxRequests /\ answered' = answered + 1
      BY <1>3, <2>1
    <2>3. NoLabels \in Seq(Text)
      BY EmptySeq DEF NoLabels
    <2>4. ReplyInv'
      BY <2>2, <2>3, BlocklistAssumption DEF ReplyInv
    <2>5. CountInv'
      BY <1>1, <1>2, <2>1, <2>2 DEF CountInv
    <2> QED BY <2>4, <2>5
  <1>7. CASE NoVariable
    <2>1. /\ request' = NotFound /\ reply'.ip_bad = Unset /\ reply'.labels = NoLabels
          /\ UNCHANGED <<allowed, blocked, answered>>
      BY <1>7 DEF NoVariable, NoReply
    <2>2. NoLabels \in Seq(Text)
      BY EmptySeq DEF NoLabels
    <2>3. ReplyInv'
      BY <2>1, <2>2, BlocklistAssumption DEF ReplyInv
    <2>4. CountInv'
      BY <1>2, <2>1 DEF CountInv
    <2> QED BY <2>3, <2>4
  <1> QED BY <1>4, <1>5, <1>6, <1>7 DEF Handle

-----------------------------------------------------------------------------
(* The invariant.                                                          *)

LEMMA BlocklistInvStarts == Init => BlocklistInv
  <1> SUFFICES ASSUME Init PROVE BlocklistInv
    OBVIOUS
  <1>1. /\ StartOfFile /\ stage = "parsing" /\ position = 1 /\ ipsets = <<>> /\ contents = <<>>
        /\ inserted = {} /\ database = [address \in Addresses |-> NotFound]
        /\ request = NotFound /\ reply.ip_bad = Unset /\ reply.labels = <<>>
        /\ allowed = 0 /\ blocked = EmptyBag /\ answered = 0
    BY DEF Init, NoReply, NoLabels
  <1>2. ParserInv
    BY <1>1, ParserInvStarts
  <1>3. FilesInv
    <2>1. Len(Tree) \in Nat
      BY BlocklistAssumption, LenProperties
    <2> QED BY <1>1, <2>1, EmptySeq DEF FilesInv
  <1>4. InsertedInv
    BY <1>1 DEF InsertedInv
  <1>5. RecordInv
    BY <1>1 DEF RecordInv, RecordOf, Covering
  <1>6. ReplyInv
    <2>1. reply.labels \in Seq(Text)
      BY <1>1, EmptySeq
    <2> QED BY <1>1, <2>1 DEF ReplyInv
  <1>7. CountInv
    <2>1. DOMAIN blocked = {} /\ IsABag(blocked)
      BY <1>1 DEF EmptyBag, SetToBag, IsABag
    <2>2. Blocks = {}
      BY <2>1 DEF Blocks
    <2> QED BY <1>1, <2>1, <2>2, BlocklistAssumption, FS_EmptySet DEF CountInv
  <1> QED BY <1>2, <1>3, <1>4, <1>5, <1>6, <1>7 DEF BlocklistInv

(* A step that answers nothing leaves the last answer and the counts.      *)
LEMMA RepliesStay ==
    ASSUME ReplyInv, CountInv, UNCHANGED serveVars,
           stage = "serving" => UNCHANGED <<stage, database>>
    PROVE  ReplyInv' /\ CountInv'
  <1>1. UNCHANGED <<request, reply, allowed, blocked, answered>>
    BY DEF serveVars
  <1>2. ReplyInv'
    <2>1. CASE stage = "serving"
      BY <1>1, <2>1 DEF ReplyInv, Hit
    <2>2. CASE stage # "serving"
      BY <1>1, <2>2 DEF ReplyInv
    <2> QED BY <2>1, <2>2
  <1>3. CountInv'
    BY <1>1 DEF CountInv, Blocks
  <1> QED BY <1>2, <1>3

\* The loop goes to the next blob.
LEMMA NextBlobKeepsFiles ==
    ASSUME FilesInv, AtBlob, position' = position + 1, UNCHANGED fileVars
    PROVE  FilesInv'
  <1>1. Len(Tree) \in Nat /\ Len(ipsets) \in Nat
    BY BlocklistAssumption, LenProperties DEF FilesInv
  <1> QED BY <1>1 DEF FilesInv, AtBlob, fileVars

LEMMA NextBlobKeepsRecords ==
    ASSUME FilesInv, InsertedInv, RecordInv, AtBlob, position' = position + 1,
           UNCHANGED <<stage, fileVars, writerVars>>
    PROVE  InsertedInv' /\ RecordInv'
  <1>1. UNCHANGED <<stage, ipsets, contents, inserted, database>>
    BY DEF fileVars, writerVars
  <1>2. position \in Nat /\ Len(Tree) \in Nat
    BY BlocklistAssumption, LenProperties DEF FilesInv
  <1>3. InsertedInv'
    BY <1>1, <1>2 DEF InsertedInv, FilePlaces, Remaining
  <1>4. RecordInv'
    BY <1>1, RecordsStay
  <1> QED BY <1>3, <1>4

\* The next file starts with a parser that has read nothing.
LEMMA NextFileStarts ==
    ASSUME NextFile
    PROVE  ParserInv'
  <1>1. StartOfFile'
    BY DEF NextFile, StartOfFile
  <1>2. StartOfFile' => ParserInv'
    BY ParserInvStarts, PTL
  <1> QED BY <1>1, <1>2

LEMMA BlocklistInvKeeps == BlocklistInv /\ [Next]_vars => BlocklistInv'
  <1> SUFFICES ASSUME BlocklistInv, [Next]_vars PROVE BlocklistInv'
    OBVIOUS
  <1>1. ParserInv /\ FilesInv /\ InsertedInv /\ RecordInv /\ ReplyInv /\ CountInv
    BY DEF BlocklistInv
  <1>2. CASE PassOver
    <2>1. /\ AtBlob /\ position' = position + 1 /\ stage = "parsing"
          /\ UNCHANGED parseVars /\ UNCHANGED fileVars /\ UNCHANGED serveVars
          /\ UNCHANGED <<stage, fileVars, writerVars>>
      BY <1>2 DEF PassOver, AtBlob
    <2>2. ParserInv'
      BY <1>1, <2>1, ParserInvKeeps
    <2>3. FilesInv'
      BY <1>1, <2>1, NextBlobKeepsFiles
    <2>4. InsertedInv' /\ RecordInv'
      BY <1>1, <2>1, NextBlobKeepsRecords
    <2>5. ReplyInv' /\ CountInv'
      BY <1>1, <2>1, RepliesStay
    <2> QED BY <2>2, <2>3, <2>4, <2>5 DEF BlocklistInv
  <1>3. CASE ParseLine
    <2>1. /\ Parse /\ stage = "parsing" /\ UNCHANGED serveVars
          /\ UNCHANGED <<stage, position, ipsets, contents, inserted, database>>
      BY <1>3 DEF ParseLine, Parsing, AtBlob, fileVars, writerVars
    <2>2. ParserInv'
      BY <1>1, <2>1, ParserInvKeeps
    <2>3. FilesInv'
      BY <1>1, <2>1 DEF FilesInv
    <2>4. InsertedInv'
      BY <1>1, <2>1 DEF InsertedInv, FilePlaces, Remaining
    <2>5. RecordInv'
      BY <1>1, <2>1, RecordsStay
    <2>6. ReplyInv' /\ CountInv'
      BY <1>1, <2>1, RepliesStay
    <2> QED BY <2>2, <2>3, <2>4, <2>5, <2>6 DEF BlocklistInv
  <1>4. CASE KeepFile
    <2>1. NextFile /\ stage = "parsing" /\ UNCHANGED serveVars
      BY <1>4 DEF KeepFile, NextFile, Parsing, AtBlob
    <2>2. ParserInv'
      BY <2>1, NextFileStarts
    <2>3. FilesInv'
      BY <1>1, <1>4, KeepFileKeepsFiles
    <2>4. InsertedInv' /\ RecordInv'
      BY <1>1, <1>4, KeepFileKeepsRecords
    <2>5. ReplyInv' /\ CountInv'
      BY <1>1, <2>1, RepliesStay
    <2> QED BY <2>2, <2>3, <2>4, <2>5 DEF BlocklistInv
  <1>5. CASE SkipFile
    <2>1. /\ NextFile /\ AtBlob /\ stage = "parsing" /\ position' = position + 1
          /\ UNCHANGED fileVars /\ UNCHANGED serveVars /\ UNCHANGED <<stage, fileVars, writerVars>>
      BY <1>5 DEF SkipFile, NextFile, Parsing, AtBlob
    <2>2. ParserInv'
      BY <2>1, NextFileStarts
    <2>3. FilesInv'
      BY <1>1, <2>1, NextBlobKeepsFiles
    <2>4. InsertedInv' /\ RecordInv'
      BY <1>1, <2>1, NextBlobKeepsRecords
    <2>5. ReplyInv' /\ CountInv'
      BY <1>1, <2>1, RepliesStay
    <2> QED BY <2>2, <2>3, <2>4, <2>5 DEF BlocklistInv
  <1>6. CASE NoEntries \/ Build
    <2>1. /\ stage = "parsing" /\ stage' \in {"failed", "serving"}
          /\ stage' = "serving" => Remaining = {}
          /\ position > Len(Tree) /\ UNCHANGED parseVars /\ UNCHANGED serveVars
          /\ UNCHANGED <<position, ipsets, contents, inserted, database>>
      BY <1>6 DEF NoEntries, Build, AllParsed, fileVars, writerVars
    <2>2. ParserInv'
      BY <1>1, <2>1, ParserInvKeeps
    <2>3. FilesInv'
      BY <1>1, <2>1 DEF FilesInv
    <2>4. InsertedInv'
      <3>1. stage' = "serving" => inserted = FilePlaces
        BY <1>1, <2>1 DEF InsertedInv, Remaining
      <3>2. FilePlaces' = FilePlaces /\ Remaining' = Remaining
        BY <2>1 DEF FilePlaces, Remaining
      <3> QED BY <1>1, <2>1, <3>1, <3>2 DEF InsertedInv
    <2>5. RecordInv'
      BY <1>1, <2>1, RecordsStay
    <2>6. ReplyInv' /\ CountInv'
      BY <1>1, <2>1, RepliesStay
    <2> QED BY <2>2, <2>3, <2>4, <2>5, <2>6 DEF BlocklistInv
  <1>7. ASSUME NEW place \in Remaining, Insert(place) PROVE BlocklistInv'
    <2>1. /\ stage = "parsing" /\ UNCHANGED parseVars /\ UNCHANGED serveVars
          /\ UNCHANGED <<position, ipsets, contents>>
      BY <1>7 DEF Insert, AllParsed, fileVars
    <2>2. ParserInv'
      BY <1>1, <2>1, ParserInvKeeps
    <2>3. FilesInv'
      BY <1>1, <2>1 DEF FilesInv
    <2>4. InsertedInv'
      BY <1>1, <1>7, InsertKeepsOrder
    <2>5. RecordInv'
      BY <1>1, <1>7, InsertKeepsRecords
    <2>6. ReplyInv' /\ CountInv'
      BY <1>1, <2>1, RepliesStay
    <2> QED BY <2>2, <2>3, <2>4, <2>5, <2>6 DEF BlocklistInv
  <1>8. CASE Handle
    <2>1. UNCHANGED <<parseVars, stage, position, fileVars, writerVars>>
      BY <1>8 DEF Handle, AllowAddress, BlockAddress, AllowIPv6, NoVariable, Answer
    <2>2. ParserInv' /\ FilesInv' /\ InsertedInv' /\ RecordInv'
      BY <1>1, <2>1, RequestKeepsFiles
    <2>3. ReplyInv' /\ CountInv'
      BY <1>1, <1>8, HandleKeepsReplies
    <2> QED BY <2>2, <2>3 DEF BlocklistInv
  <1>9. CASE UNCHANGED vars
    <2>1. UNCHANGED <<parseVars, stage, position, fileVars, writerVars>> /\ UNCHANGED serveVars
          /\ UNCHANGED <<stage, database>>
      BY <1>9 DEF vars, writerVars
    <2>2. ParserInv' /\ FilesInv' /\ InsertedInv' /\ RecordInv'
      BY <1>1, <2>1, RequestKeepsFiles
    <2>3. ReplyInv' /\ CountInv'
      BY <1>1, <2>1, RepliesStay
    <2> QED BY <2>2, <2>3 DEF BlocklistInv
  <1> QED BY <1>2, <1>3, <1>4, <1>5, <1>6, <1>7, <1>8, <1>9 DEF Next

(* The invariant holds in every state.                                     *)
THEOREM BlocklistInvariant == Spec => []BlocklistInv
  BY BlocklistInvStarts, BlocklistInvKeeps, PTL DEF Spec

-----------------------------------------------------------------------------
(* From places to lines.                                                   *)

(* The lines of all files that are networks.                               *)
AllLines == UNION {{f} \X NetworkLines(contents[f]) : f \in DOMAIN contents}
NetworkOfLine(l) == contents[l[1]][l[2]].network

(* The places of the files correspond to their lines, in order, with the   *)
(* same network, file name and header.                                     *)
LEMMA PlacesAreLines ==
    ASSUME FilesInv
    PROVE  \E of :
              /\ of \in [FilePlaces -> AllLines]
              /\ \A p, q \in FilePlaces : Precedes(p, q) => Before(of[p], of[q])
              /\ \A l \in AllLines : \E p \in FilePlaces : of[p] = l
              /\ \A p \in FilePlaces :
                    /\ NetworkOfLine(of[p]) = NetworkAt(p)
                    /\ FileOf(of[p]) = ipsets[p[1]].file_name
                    /\ HeaderOf(of[p]) = SectionAt(p).metadata
  <1> DEFINE lineOf(f) == CHOOSE line : Lists(line, ipsets[f].sections, contents[f])
             of == [p \in FilePlaces |-> <<p[1], lineOf(p[1])[p[2]]>>]
  <1>1. \A f \in 1 .. Len(ipsets) : Lists(lineOf(f), ipsets[f].sections, contents[f])
    BY DEF FilesInv
  <1>2. /\ DOMAIN ipsets = 1 .. Len(ipsets) /\ DOMAIN contents = 1 .. Len(ipsets) /\ Len(ipsets) \in Nat
    BY LenProperties DEF FilesInv
  <1> HIDE DEF lineOf
  <1>3. ASSUME NEW p \in FilePlaces
        PROVE  /\ p[1] \in 1 .. Len(ipsets) /\ p[2] \in Places(ipsets[p[1]].sections)
               /\ lineOf(p[1])[p[2]] \in NetworkLines(contents[p[1]])
               /\ of[p] = <<p[1], lineOf(p[1])[p[2]]>> /\ of[p][1] = p[1] /\ of[p][2] = lineOf(p[1])[p[2]]
    <2>1. p[1] \in 1 .. Len(ipsets) /\ p[2] \in Places(ipsets[p[1]].sections)
      BY FilePlace
    <2>2. lineOf(p[1]) \in [Places(ipsets[p[1]].sections) -> NetworkLines(contents[p[1]])]
      BY <1>1, <2>1 DEF Lists
    <2> QED BY <2>1, <2>2
  <1> HIDE DEF of
  <1>4. of \in [FilePlaces -> AllLines]
    <2>1. ASSUME NEW p \in FilePlaces PROVE of[p] \in AllLines
      <3>1. of[p] \in {p[1]} \X NetworkLines(contents[p[1]])
        <4>1. PICK i : i = lineOf(p[1])[p[2]]
          OBVIOUS
        <4>2. of[p] = <<p[1], i>> /\ i \in NetworkLines(contents[p[1]])
          BY <1>3, <4>1
        <4> QED BY <4>2
      <3>2. p[1] \in DOMAIN contents
        BY <1>2, <1>3
      <3> QED BY <3>1, <3>2 DEF AllLines
    <2> QED BY <2>1 DEF of
  <1>5. ASSUME NEW p \in FilePlaces, NEW q \in FilePlaces, Precedes(p, q)
        PROVE  Before(of[p], of[q])
    <2>1. CASE p[1] < q[1]
      BY <1>3, <2>1 DEF Before
    <2>2. CASE p[1] = q[1] /\ Before(p[2], q[2])
      <3>1. lineOf(p[1])[p[2]] < lineOf(p[1])[q[2]]
        BY <1>1, <1>3, <2>2 DEF Lists
      <3> QED BY <1>3, <2>2, <3>1 DEF Before
    <2> QED BY <1>5, <2>1, <2>2 DEF Precedes
  <1>6. ASSUME NEW l \in AllLines PROVE \E p \in FilePlaces : of[p] = l
    <2>1. PICK f \in DOMAIN contents : l \in {f} \X NetworkLines(contents[f])
      BY DEF AllLines
    <2>2. l = <<f, l[2]>> /\ l[2] \in NetworkLines(contents[f]) /\ f \in DOMAIN ipsets /\ f \in 1 .. Len(ipsets)
      BY <1>2, <2>1
    <2>3. PICK place \in Places(ipsets[f].sections) : lineOf(f)[place] = l[2]
      BY <1>1, <2>2 DEF Lists
    <2>4. <<f, place>> \in FilePlaces
      <3>1. <<f, place>> \in {f} \X Places(ipsets[f].sections)
        OBVIOUS
      <3> QED BY <2>2, <3>1 DEF FilePlaces
    <2>5. of[<<f, place>>] = <<f, lineOf(f)[place]>>
      BY <1>3, <2>4
    <2> QED BY <2>2, <2>3, <2>4, <2>5
  <1>7. ASSUME NEW p \in FilePlaces
        PROVE  /\ NetworkOfLine(of[p]) = NetworkAt(p)
               /\ FileOf(of[p]) = ipsets[p[1]].file_name
               /\ HeaderOf(of[p]) = SectionAt(p).metadata
    <2> DEFINE line == lineOf(p[1])
               parsed == ipsets[p[1]].sections
               lines == contents[p[1]]
               place == p[2]
    <2>1. Lists(line, parsed, lines) /\ place \in Places(parsed)
      BY <1>1, <1>3
    <2>2. /\ parsed[place[1]].networks[place[2]] = lines[line[place]].network
          /\ parsed[place[1]].metadata = HeaderAt(lines, line[place])
      BY <2>1 DEF Lists
    <2>3. of[p][1] = p[1] /\ of[p][2] = line[place]
      BY <1>3
    <2> QED BY <2>2, <2>3 DEF NetworkOfLine, NetworkAt, SectionAt, FileOf, HeaderOf
  <1> QED BY <1>4, <1>5, <1>6, <1>7

(* The lines that list an address are among them.                          *)
LEMMA ListingsAreLines ==
    ASSUME NEW address
    PROVE  Listings(address) = {l \in AllLines : address \in Covers[NetworkOfLine(l)]}
  <1>1. ASSUME NEW l \in Listings(address)
        PROVE  l \in AllLines /\ address \in Covers[NetworkOfLine(l)]
    <2>1. PICK f \in DOMAIN contents :
             l \in {f} \X {i \in NetworkLines(contents[f]) : address \in Covers[contents[f][i].network]}
      BY DEF Listings
    <2>2. l \in {f} \X NetworkLines(contents[f]) /\ l[1] = f /\ address \in Covers[contents[f][l[2]].network]
      BY <2>1
    <2> QED BY <2>2 DEF AllLines, NetworkOfLine
  <1>2. ASSUME NEW l \in AllLines, address \in Covers[NetworkOfLine(l)]
        PROVE  l \in Listings(address)
    <2>1. PICK f \in DOMAIN contents : l \in {f} \X NetworkLines(contents[f])
      BY DEF AllLines
    <2>2. l[1] = f /\ l = <<f, l[2]>> /\ l[2] \in NetworkLines(contents[f])
      BY <2>1
    <2>3. l \in {f} \X {i \in NetworkLines(contents[f]) : address \in Covers[contents[f][i].network]}
      BY <1>2, <2>2 DEF NetworkOfLine
    <2> QED BY <2>3 DEF Listings
  <1> QED BY <1>1, <1>2

(* When all networks are inserted, the record of an address is its lines,  *)
(* in the order of the files, and an address without lines has no record.  *)
ListedBy(entry, n, at, address) ==
    /\ at \in [1 .. n -> Listings(address)]
    /\ \A i, j \in 1 .. n : i < j => Before(at[i], at[j])
    /\ \A l \in Listings(address) : \E i \in 1 .. n : at[i] = l
    /\ entry \in [Fields -> Seq(Text)]
    /\ \A key \in Fields : Len(entry[key]) = n
    /\ \A i \in 1 .. n :
          /\ entry["file_name"][i] = FileOf(at[i])
          /\ \A key \in HeaderKeys : entry[key][i] = HeaderOf(at[i])[key]

LEMMA RecordsAreLines ==
    ASSUME FilesInv, RecordInv, inserted = FilePlaces, NEW address \in Addresses
    PROVE  \/ database[address] = NotFound /\ Listings(address) = {}
           \/ \E n \in Nat \ {0} : \E at : ListedBy(database[address], n, at, address)
  <1>1. PICK of :
           /\ of \in [FilePlaces -> AllLines]
           /\ \A p, q \in FilePlaces : Precedes(p, q) => Before(of[p], of[q])
           /\ \A l \in AllLines : \E p \in FilePlaces : of[p] = l
           /\ \A p \in FilePlaces :
                 /\ NetworkOfLine(of[p]) = NetworkAt(p)
                 /\ FileOf(of[p]) = ipsets[p[1]].file_name
                 /\ HeaderOf(of[p]) = SectionAt(p).metadata
    BY PlacesAreLines
  <1>2. Covering(address) = {p \in FilePlaces : address \in Covers[NetworkAt(p)]}
    BY DEF Covering
  <1>3. Listings(address) = {l \in AllLines : address \in Covers[NetworkOfLine(l)]}
    BY ListingsAreLines
  <1>4. \A p \in Covering(address) : p \in FilePlaces /\ of[p] \in Listings(address)
    BY <1>1, <1>2, <1>3
  <1>5. ASSUME NEW l \in Listings(address) PROVE \E p \in Covering(address) : of[p] = l
    <2>1. l \in AllLines /\ address \in Covers[NetworkOfLine(l)]
      BY <1>3
    <2>2. PICK p \in FilePlaces : of[p] = l
      BY <1>1, <2>1
    <2> QED BY <1>1, <1>2, <2>1, <2>2
  <1>6. PICK entry : entry = database[address] /\ RecordOf(address, entry)
    BY DEF RecordInv
  <1>7. CASE entry = NotFound /\ Covering(address) = {}
    BY <1>5, <1>6, <1>7
  <1>8. ASSUME NEW n \in Nat \ {0}, NEW at, Stacks(entry, n, at, address)
        PROVE  \E lines : ListedBy(entry, n, lines, address)
    <2> DEFINE lines == [i \in 1 .. n |-> of[at[i]]]
    <2>1. /\ at \in [1 .. n -> Covering(address)]
          /\ \A i, j \in 1 .. n : i < j => Precedes(at[i], at[j])
          /\ \A p \in Covering(address) : \E i \in 1 .. n : at[i] = p
          /\ entry \in [Fields -> Seq(Text)]
          /\ \A key \in Fields :
                Len(entry[key]) = n /\ \A i \in 1 .. n : entry[key][i] = ElementAt(at[i], key)
      BY <1>8 DEF Stacks
    <2>2. lines \in [1 .. n -> Listings(address)] /\ \A i \in 1 .. n : lines[i] = of[at[i]]
      BY <1>4, <2>1
    <2> HIDE DEF lines
    <2>3. ASSUME NEW i \in 1 .. n, NEW j \in 1 .. n, i < j PROVE Before(lines[i], lines[j])
      <3>1. Precedes(at[i], at[j]) /\ at[i] \in FilePlaces /\ at[j] \in FilePlaces
        BY <1>4, <2>1, <2>3
      <3> QED BY <1>1, <2>2, <3>1
    <2>4. ASSUME NEW l \in Listings(address) PROVE \E i \in 1 .. n : lines[i] = l
      <3>1. PICK p \in Covering(address) : of[p] = l
        BY <1>5
      <3>2. PICK i \in 1 .. n : at[i] = p
        BY <2>1
      <3> QED BY <2>2, <3>1, <3>2
    <2>5. ASSUME NEW i \in 1 .. n
          PROVE  /\ entry["file_name"][i] = FileOf(lines[i])
                 /\ \A key \in HeaderKeys : entry[key][i] = HeaderOf(lines[i])[key]
      <3>1. at[i] \in FilePlaces
        BY <1>4, <2>1
      <3>2. FileOf(lines[i]) = ipsets[at[i][1]].file_name /\ HeaderOf(lines[i]) = SectionAt(at[i]).metadata
        BY <1>1, <2>2, <3>1
      <3>3. entry["file_name"][i] = ElementAt(at[i], "file_name")
        BY <2>1, FieldsRead
      <3>4. ElementAt(at[i], "file_name") = ipsets[at[i][1]].file_name
        BY DEF ElementAt
      <3>5. ASSUME NEW key \in HeaderKeys PROVE entry[key][i] = HeaderOf(lines[i])[key]
        <4>1. key \in Fields /\ key # "file_name"
          BY DEF Fields, HeaderKeys
        <4>2. entry[key][i] = ElementAt(at[i], key)
          BY <2>1, <4>1
        <4>3. ElementAt(at[i], key) = SectionAt(at[i]).metadata[key]
          BY <4>1 DEF ElementAt
        <4> QED BY <3>2, <4>2, <4>3
      <3> QED BY <3>2, <3>3, <3>4, <3>5
    <2>6. ListedBy(entry, n, lines, address)
      BY <2>1, <2>2, <2>3, <2>4, <2>5 DEF ListedBy
    <2> QED BY <2>6
  <1>9. CASE \E n \in Nat \ {0} : \E at : Stacks(entry, n, at, address)
    <2>1. PICK n \in Nat \ {0} : \E at : Stacks(entry, n, at, address)
      BY <1>9
    <2>2. PICK at : Stacks(entry, n, at, address)
      BY <2>1
    <2>3. \E lines : ListedBy(entry, n, lines, address)
      BY <1>8, <2>2
    <2> QED BY <1>6, <2>3
  <1> QED BY <1>6, <1>7, <1>9 DEF RecordOf

-----------------------------------------------------------------------------
(* The theorems.                                                           *)

(* The arrays of a record are aligned, its labels are text of the files,   *)
(* and the loops stay within the tree, whatever the files are.             *)
THEOREM BlocklistTypeCorrect == Spec => []BlocklistTypeOK
  <1>1. BlocklistInv => BlocklistTypeOK
    <2> SUFFICES ASSUME BlocklistInv PROVE BlocklistTypeOK
      OBVIOUS
    <2>1. FilesInv /\ InsertedInv /\ RecordInv /\ ReplyInv /\ CountInv
      BY DEF BlocklistInv
    <2>2. ASSUME NEW address \in Addresses, database[address] # NotFound, NEW f \in Fields, NEW g \in Fields
          PROVE  Len(database[address][f]) = Len(database[address][g])
      <3>1. PICK n \in Nat \ {0} : \A key \in Fields : Len(database[address][key]) = n
        BY <2>1, <2>2, RecordIsAligned
      <3> QED BY <3>1
    <2>3. reply.ip_bad \in BOOLEAN \cup {Unset}
      BY <2>1 DEF ReplyInv
    <2>4. /\ position \in 1 .. Len(Tree) + 1 /\ Len(ipsets) = Len(contents) /\ Len(ipsets) < position
          /\ stage \in {"parsing", "serving", "failed"} /\ inserted \subseteq FilePlaces
      BY <2>1 DEF FilesInv, InsertedInv
    <2>5. /\ request \in Addresses \cup {NotFound} /\ reply.labels \in Seq(Text)
          /\ allowed \in Nat /\ IsABag(blocked) /\ answered \in 0 .. MaxRequests
      BY <2>1 DEF ReplyInv, CountInv
    <2> QED BY <2>2, <2>3, <2>4, <2>5 DEF BlocklistTypeOK
  <1> QED BY <1>1, BlocklistInvariant, PTL

(* A field of the record and the listing at the same index agree, so that  *)
(* a search finds the first listing that fits.                             *)
LEMMA HitIsFirstGuilty ==
    ASSUME NEW address \in Addresses, NEW entry, entry = database[address], entry # NotFound,
           NEW n \in Nat \ {0}, NEW at, ListedBy(entry, n, at, address)
    PROVE  /\ Hit(address) \in 0 .. n
           /\ Hit(address) = 0 <=> Guilty(address) = {}
           /\ Hit(address) # 0 =>
                 /\ at[Hit(address)] \in Guilty(address)
                 /\ \A other \in Guilty(address) \ {at[Hit(address)]} : Before(at[Hit(address)], other)
  <1> DEFINE category == First(entry["Category"], drop_categories)
             name == First(entry["file_name"], drop_file_names)
             byCategory == {l \in Listings(address) : ByCategory(l)}
             byName == {l \in Listings(address) : ByFileName(l)}
             hit == Hit(address)
  <1>1. hit = IF category # 0 THEN category ELSE name
    BY DEF Hit, FindMatch
  <1>2. Guilty(address) = IF byCategory # {} THEN byCategory ELSE byName
    BY DEF Guilty
  <1>3. /\ at \in [1 .. n -> Listings(address)]
        /\ \A i, j \in 1 .. n : i < j => Before(at[i], at[j])
        /\ \A l \in Listings(address) : \E i \in 1 .. n : at[i] = l
    BY DEF ListedBy
  <1>4. /\ entry["Category"] \in Seq(Text) /\ Len(entry["Category"]) = n
        /\ entry["file_name"] \in Seq(Text) /\ Len(entry["file_name"]) = n
    BY FieldsRead DEF ListedBy
  <1>5. ASSUME NEW i \in 1 .. n
        PROVE  /\ at[i] \in byCategory <=> entry["Category"][i] \in drop_categories
               /\ at[i] \in byName <=> entry["file_name"][i] \in drop_file_names
    <2>1. entry["file_name"][i] = FileOf(at[i]) /\ entry["Category"][i] = HeaderOf(at[i])["Category"]
      BY DEF ListedBy, HeaderKeys
    <2>2. at[i] \in Listings(address)
      BY <1>3
    <2> QED BY <2>1, <2>2 DEF ByCategory, ByFileName
  <1>6. /\ category \in 0 .. n
        /\ category = 0 <=> \A i \in 1 .. n : entry["Category"][i] \notin drop_categories
        /\ category # 0 =>
              /\ entry["Category"][category] \in drop_categories
              /\ \A i \in 1 .. n : entry["Category"][i] \in drop_categories => category <= i
    BY <1>4, FirstHit
  <1>7. /\ name \in 0 .. n
        /\ name = 0 <=> \A i \in 1 .. n : entry["file_name"][i] \notin drop_file_names
        /\ name # 0 =>
              /\ entry["file_name"][name] \in drop_file_names
              /\ \A i \in 1 .. n : entry["file_name"][i] \in drop_file_names => name <= i
    BY <1>4, FirstHit
  <1>8. byCategory \subseteq Listings(address) /\ byName \subseteq Listings(address)
    OBVIOUS
  <1> HIDE DEF category, name, byCategory, byName, hit
  \* The first index whose listing is in a set is that of its least element.
  <1>9. ASSUME NEW S, S \subseteq Listings(address), NEW first \in 0 .. n,
               first = 0 <=> \A i \in 1 .. n : at[i] \notin S,
               first # 0 => at[first] \in S /\ \A i \in 1 .. n : at[i] \in S => first <= i
        PROVE  /\ first = 0 <=> S = {}
               /\ first # 0 =>
                     at[first] \in S /\ \A other \in S \ {at[first]} : Before(at[first], other)
    <2>1. \A l \in S : \E i \in 1 .. n : at[i] = l
      BY <1>3, <1>9
    <2>2. first = 0 <=> S = {}
      <3>1. first = 0 => S = {}
        BY <1>9, <2>1
      <3>2. S = {} => first = 0
        BY <1>9
      <3> QED BY <3>1, <3>2
    <2>3. ASSUME first # 0, NEW other \in S \ {at[first]} PROVE Before(at[first], other)
      <3>1. PICK i \in 1 .. n : at[i] = other
        BY <2>1
      <3>2. first <= i /\ first # i /\ first \in 1 .. n
        BY <1>9, <2>3, <3>1
      <3> QED BY <1>3, <3>1, <3>2
    <2> QED BY <1>9, <2>2, <2>3
  <1>10. /\ category = 0 <=> byCategory = {}
         /\ category # 0 =>
               /\ at[category] \in byCategory
               /\ \A other \in byCategory \ {at[category]} : Before(at[category], other)
    <2>1. category = 0 <=> \A i \in 1 .. n : at[i] \notin byCategory
      BY <1>5, <1>6
    <2>2. category # 0 => at[category] \in byCategory /\ \A i \in 1 .. n : at[i] \in byCategory => category <= i
      BY <1>5, <1>6
    <2> QED BY <1>6, <1>8, <1>9, <2>1, <2>2
  <1>11. /\ name = 0 <=> byName = {}
         /\ name # 0 =>
               /\ at[name] \in byName
               /\ \A other \in byName \ {at[name]} : Before(at[name], other)
    <2>1. name = 0 <=> \A i \in 1 .. n : at[i] \notin byName
      BY <1>5, <1>7
    <2>2. name # 0 => at[name] \in byName /\ \A i \in 1 .. n : at[i] \in byName => name <= i
      BY <1>5, <1>7
    <2> QED BY <1>7, <1>8, <1>9, <2>1, <2>2
  <1>12. /\ hit \in 0 .. n
         /\ hit = 0 <=> Guilty(address) = {}
         /\ hit # 0 =>
               /\ at[hit] \in Guilty(address)
               /\ \A other \in Guilty(address) \ {at[hit]} : Before(at[hit], other)
    <2>1. CASE category # 0
      <3>1. hit = category /\ Guilty(address) = byCategory
        BY <1>1, <1>2, <1>10, <2>1
      <3> QED BY <1>6, <1>10, <2>1, <3>1
    <2>2. CASE category = 0
      <3>1. hit = name /\ Guilty(address) = byName
        BY <1>1, <1>2, <1>10, <2>2
      <3> QED BY <1>7, <1>11, <3>1
    <2> QED BY <2>1, <2>2
  <1> QED BY <1>12 DEF hit

(* A block is due to a listing, and its labels are those of the first one. *)
LEMMA HitIsGuilty ==
    ASSUME FilesInv, InsertedInv, RecordInv, stage = "serving", NEW address \in Addresses
    PROVE  /\ Hit(address) # 0 <=> Guilty(address) # {}
           /\ Hit(address) # 0 =>
                 \E first \in Guilty(address) :
                    /\ \A other \in Guilty(address) \ {first} : Before(first, other)
                    /\ Labels(database[address], Hit(address))
                          = <<FileOf(first), HeaderOf(first)["Maintainer"], HeaderOf(first)["Category"]>>
  <1>1. inserted = FilePlaces
    BY DEF InsertedInv
  <1>2. CASE database[address] = NotFound /\ Listings(address) = {}
    <2>1. Hit(address) = 0
      BY <1>2 DEF Hit
    <2>2. Guilty(address) = {}
      BY <1>2 DEF Guilty
    <2> QED BY <2>1, <2>2
  <1>3. ASSUME NEW n \in Nat \ {0}, NEW at, ListedBy(database[address], n, at, address)
        PROVE  /\ Hit(address) # 0 <=> Guilty(address) # {}
               /\ Hit(address) # 0 =>
                     \E first \in Guilty(address) :
                        /\ \A other \in Guilty(address) \ {first} : Before(first, other)
                        /\ Labels(database[address], Hit(address))
                              = <<FileOf(first), HeaderOf(first)["Maintainer"], HeaderOf(first)["Category"]>>
    <2>1. database[address] # NotFound
      <3>1. database[address] \in [Fields -> Seq(Text)]
        BY <1>3 DEF ListedBy
      <3> QED BY <3>1, BlocklistAssumption
    <2>2. /\ Hit(address) \in 0 .. n
          /\ Hit(address) = 0 <=> Guilty(address) = {}
          /\ Hit(address) # 0 =>
                /\ at[Hit(address)] \in Guilty(address)
                /\ \A other \in Guilty(address) \ {at[Hit(address)]} : Before(at[Hit(address)], other)
      BY <1>3, <2>1, HitIsFirstGuilty
    <2>3. ASSUME Hit(address) # 0
          PROVE  Labels(database[address], Hit(address))
                    = <<FileOf(at[Hit(address)]), HeaderOf(at[Hit(address)])["Maintainer"],
                        HeaderOf(at[Hit(address)])["Category"]>>
      <3> DEFINE entry == database[address]
                 hit == Hit(address)
      <3>1. Labels(entry, hit) =
               <<entry["file_name"][hit], entry["Maintainer"][hit], entry["Category"][hit]>>
        BY <2>3, HitIsAnElement
      <3>2. hit \in 1 .. n
        BY <2>2, <2>3
      <3>3. ListedBy(entry, n, at, address)
        BY <1>3
      <3> HIDE DEF entry, hit
      <3>4. /\ entry["file_name"][hit] = FileOf(at[hit])
            /\ entry["Maintainer"][hit] = HeaderOf(at[hit])["Maintainer"]
            /\ entry["Category"][hit] = HeaderOf(at[hit])["Category"]
        BY <3>2, <3>3 DEF ListedBy, HeaderKeys
      <3>5. Labels(entry, hit)
               = <<FileOf(at[hit]), HeaderOf(at[hit])["Maintainer"], HeaderOf(at[hit])["Category"]>>
        BY <3>1, <3>4
      <3> QED BY <3>5 DEF entry, hit
    <2> QED BY <2>2, <2>3
  <1> QED BY <1>1, <1>2, <1>3, RecordsAreLines

(* No line covers what is no address.                                      *)
LEMMA NothingListsNotFound ==
    ASSUME FilesInv
    PROVE  Listings(NotFound) = {}
  <1> SUFFICES ASSUME NEW l \in Listings(NotFound) PROVE FALSE
    OBVIOUS
  <1>1. PICK f \in DOMAIN contents :
           l \in {f} \X {i \in NetworkLines(contents[f]) : NotFound \in Covers[contents[f][i].network]}
    BY DEF Listings
  <1>2. l[2] \in NetworkLines(contents[f]) /\ NotFound \in Covers[contents[f][l[2]].network]
    BY <1>1
  <1>3. contents[f] \in Seq(Lines)
    <2>1. f \in 1 .. Len(contents)
      BY LenProperties DEF FilesInv
    <2> QED BY <2>1, ElementOfSeq DEF FilesInv
  <1>4. contents[f][l[2]] \in Lines /\ contents[f][l[2]].kind = "network"
    BY <1>2, <1>3, LenProperties, ElementOfSeq DEF NetworkLines
  <1>5. contents[f][l[2]].network \in Networks
    BY <1>4, NetworkOfEntry
  <1>6. NotFound \in Addresses
    BY <1>2, <1>5, BlocklistAssumption
  <1> QED BY <1>6, BlocklistAssumption

(* A request is blocked exactly when a line of a kept file that covers its *)
(* address has a dropped category or stands in a dropped file, for any     *)
(* number of overlapping lists.                                            *)
THEOREM DropIffListedCorrect == Spec => []DropIffListed
  <1>1. BlocklistInv => DropIffListed
    <2> SUFFICES ASSUME BlocklistInv, reply.ip_bad # Unset PROVE DropIffListed
      BY DEF DropIffListed
    <2>1. FilesInv /\ InsertedInv /\ RecordInv /\ ReplyInv
      BY DEF BlocklistInv
    <2>2. /\ stage = "serving" /\ reply.ip_bad \in {TRUE, FALSE} /\ request \in Addresses \cup {NotFound}
          /\ reply.ip_bad = TRUE <=> request \in Addresses /\ Hit(request) # 0
      BY <2>1 DEF ReplyInv
    <2>3. Guilty(request) # {} <=> \E listing \in Listings(request) : ByCategory(listing) \/ ByFileName(listing)
      BY DEF Guilty
    <2>4. request = NotFound => Listings(request) = {}
      BY <2>1, NothingListsNotFound
    <2>5. reply.ip_bad = TRUE <=> Guilty(request) # {}
      <3>1. CASE request \in Addresses
        BY <2>1, <2>2, <3>1, HitIsGuilty
      <3>2. CASE request = NotFound
        BY <2>2, <2>3, <2>4, <3>2, BlocklistAssumption
      <3> QED BY <2>2, <3>1, <3>2
    <2>6. CASE reply.ip_bad = TRUE
      BY <2>3, <2>5, <2>6 DEF DropIffListed
    <2>7. CASE reply.ip_bad = FALSE
      BY <2>3, <2>5, <2>7 DEF DropIffListed
    <2> QED BY <2>2, <2>6, <2>7
  <1> QED BY <1>1, BlocklistInvariant, PTL

(* The labels a block is counted under are those of the first line that    *)
(* justifies it, however the records of the lists were merged.             *)
THEOREM BlamesOneListCorrect == Spec => []BlamesOneList
  <1>1. BlocklistInv => BlamesOneList
    <2> SUFFICES ASSUME BlocklistInv, reply.ip_bad = TRUE PROVE BlamesOneList
      BY DEF BlamesOneList
    <2>1. FilesInv /\ InsertedInv /\ RecordInv /\ ReplyInv
      BY DEF BlocklistInv
    <2>2. TRUE # Unset
      BY BlocklistAssumption
    <2>3. /\ stage = "serving" /\ request \in Addresses /\ Hit(request) # 0
          /\ reply.labels = Labels(database[request], Hit(request))
      BY <2>1, <2>2 DEF ReplyInv
    <2> QED BY <2>1, <2>3, HitIsGuilty DEF BlamesOneList
  <1> QED BY <1>1, BlocklistInvariant, PTL

(* No answer is counted twice or not at all, for any number of requests.   *)
THEOREM EveryAnswerCountedCorrect == Spec => []EveryAnswerCounted
  <1>1. BlocklistInv => EveryAnswerCounted
    BY DEF BlocklistInv, CountInv, EveryAnswerCounted
  <1> QED BY <1>1, BlocklistInvariant, PTL

-----------------------------------------------------------------------------
(* The refinement of Verdicts.                                             *)

(* What Verdicts sees of a line.                                           *)
LEMMA LinesSeen ==
    ASSUME FilesInv
    PROVE  /\ Promise!Lines = AllLines
           /\ \A l \in AllLines :
                 /\ Promise!NameOf(l) = FileOf(l)
                 /\ Promise!At(l).covers = Covers[NetworkOfLine(l)]
                 /\ Promise!At(l).category = HeaderOf(l)["Category"]
                 /\ Promise!At(l).maintainer = HeaderOf(l)["Maintainer"]
  <1>1. DOMAIN contents = 1 .. Len(contents) /\ DOMAIN ListsRead = 1 .. Len(contents)
    BY LenProperties DEF FilesInv, ListsRead
  <1>2. ASSUME NEW f \in 1 .. Len(contents)
        PROVE  /\ ListsRead[f].file_name = ipsets[f].file_name
               /\ DOMAIN ListsRead[f].lines = NetworkLines(contents[f])
               /\ \A i \in NetworkLines(contents[f]) :
                     /\ ListsRead[f].lines[i].covers = Covers[contents[f][i].network]
                     /\ ListsRead[f].lines[i].category = HeaderAt(contents[f], i)["Category"]
                     /\ ListsRead[f].lines[i].maintainer = HeaderAt(contents[f], i)["Maintainer"]
    BY DEF ListsRead, ListOf
  <1>3. Promise!Lines = AllLines
    BY <1>1, <1>2 DEF Promise!Lines, AllLines
  <1>4. ASSUME NEW l \in AllLines
        PROVE  /\ Promise!NameOf(l) = FileOf(l)
               /\ Promise!At(l).covers = Covers[NetworkOfLine(l)]
               /\ Promise!At(l).category = HeaderOf(l)["Category"]
               /\ Promise!At(l).maintainer = HeaderOf(l)["Maintainer"]
    <2>1. PICK f \in DOMAIN contents : l \in {f} \X NetworkLines(contents[f])
      BY DEF AllLines
    <2>2. f \in 1 .. Len(contents) /\ l[1] = f /\ l[2] \in NetworkLines(contents[f])
      BY <1>1, <2>1
    <2> QED BY <1>2, <2>2 DEF Promise!NameOf, Promise!At, FileOf, HeaderOf, NetworkOfLine
  <1> QED BY <1>3, <1>4

(* Verdicts blames the same lines, and finds the same one first.           *)
LEMMA SameBlame ==
    ASSUME FilesInv, NEW address
    PROVE  Promise!Blamed(address) = Guilty(address)
  <1>1. Listings(address) = {l \in AllLines : address \in Covers[NetworkOfLine(l)]}
    BY ListingsAreLines
  <1>2. {l \in Promise!Lines : address \in Promise!At(l).covers /\ Promise!At(l).category \in drop_categories}
          = {l \in Listings(address) : ByCategory(l)}
    BY <1>1, LinesSeen DEF ByCategory
  <1>3. {l \in Promise!Lines : address \in Promise!At(l).covers /\ Promise!NameOf(l) \in drop_file_names}
          = {l \in Listings(address) : ByFileName(l)}
    BY <1>1, LinesSeen DEF ByFileName
  <1> QED BY <1>2, <1>3 DEF Promise!Blamed, Guilty

(* The lists do not change once they are read.                             *)
LEMMA ListsStay ==
    ASSUME UNCHANGED <<ipsets, contents>>
    PROVE  UNCHANGED ListsRead
  BY DEF ListsRead, ListOf

(* A sequence and one more element.                                        *)
LEMMA OneMore ==
    ASSUME NEW n \in Nat, NEW s, NEW t,
           s = [i \in 1 .. n |-> s[i]], t = [i \in 1 .. n + 1 |-> t[i]],
           \A i \in 1 .. n : t[i] = s[i]
    PROVE  Len(t) = Len(s) + 1 /\ s = SubSeq(t, 1, Len(s))
  <1> DEFINE S == {t[i] : i \in 1 .. n + 1}
  <1>1. t \in [1 .. n + 1 -> S] /\ s \in [1 .. n -> S]
    <2>1. \A i \in 1 .. n + 1 : t[i] \in S
      OBVIOUS
    <2>2. \A i \in 1 .. n : s[i] \in S
      <3>1. \A i \in 1 .. n : i \in 1 .. n + 1
        OBVIOUS
      <3> QED BY <2>1, <3>1
    <2> HIDE DEF S
    <2> QED BY <2>1, <2>2
  <1> HIDE DEF S
  <1>2. s \in Seq(S) /\ t \in Seq(S)
    <2>1. n + 1 \in Nat
      OBVIOUS
    <2> QED BY <1>1, <2>1, SeqDef
  <1>3. Len(s) = n /\ Len(t) = n + 1
    <2>1. DOMAIN s = 1 .. n /\ DOMAIN t = 1 .. n + 1
      BY <1>1
    <2> QED BY <1>2, <2>1, LenProperties
  <1>4. SubSeq(t, 1, n) = [i \in 1 .. n |-> t[i]]
    BY <1>2, <1>3
  <1> QED BY <1>3, <1>4

(* A file that is kept is one more list.                                   *)
LEMMA KeepFileReads ==
    ASSUME ParserInv, FilesInv, KeepFile
    PROVE  Promise!Read
  <1> DEFINE N == Len(contents)
             file == [file_name |-> Tree[position].file_name, sections |-> sections]
  <1>1. /\ stage = "parsing" /\ UNCHANGED <<stage, serveVars>>
        /\ ipsets' = Append(ipsets, file) /\ contents' = Append(contents, content)
    BY DEF KeepFile, NextFile, Parsing, AtBlob
  <1>2. N \in Nat /\ Len(ipsets) = N /\ ipsets \in Seq(Ipsets) /\ contents \in Seq(Seq(Lines))
    BY LenProperties DEF FilesInv
  <1>3. file \in Ipsets /\ content \in Seq(Lines)
    <2>1. position \in 1 .. Len(Tree)
      BY DEF KeepFile, Parsing, AtBlob, FilesInv
    <2>2. position \in DOMAIN Tree
      BY <2>1, BlocklistAssumption, LenProperties
    <2>3. content \in Seq(Lines) /\ sections \in Seq(Sections)
      BY DEF ParserInv, ParserTypeOK, Sections
    <2> QED BY <2>2, <2>3 DEF Ipsets, FileNames
  <1> HIDE DEF file
  <1>4. /\ Len(contents') = N + 1
        /\ \A f \in 1 .. N : ipsets'[f] = ipsets[f] /\ contents'[f] = contents[f]
    BY <1>1, <1>2, <1>3, AppendProperties
  <1>5. ListsRead = [f \in 1 .. N |-> ListsRead[f]] /\ ListsRead' = [f \in 1 .. N + 1 |-> ListsRead'[f]]
    BY <1>4 DEF ListsRead
  <1>6. \A f \in 1 .. N : ListsRead'[f] = ListsRead[f]
    <2> SUFFICES ASSUME NEW f \in 1 .. N PROVE ListsRead'[f] = ListsRead[f]
      OBVIOUS
    <2>1. f \in 1 .. N + 1
      BY <1>2
    <2>2. ListsRead'[f] = ListOf(f)' /\ ListsRead[f] = ListOf(f)
      BY <1>4, <2>1 DEF ListsRead
    <2>3. ListOf(f)' = ListOf(f)
      BY <1>4 DEF ListOf
    <2> QED BY <2>2, <2>3
  <1> HIDE DEF N
  <1>7. Len(ListsRead') = Len(ListsRead) + 1 /\ ListsRead = SubSeq(ListsRead', 1, Len(ListsRead))
    <2>1. PICK n \in Nat : n = N
      BY <1>2
    <2>2. PICK before, after : before = ListsRead /\ after = ListsRead'
      OBVIOUS
    <2>3. /\ before = [f \in 1 .. n |-> before[f]] /\ after = [f \in 1 .. n + 1 |-> after[f]]
          /\ \A f \in 1 .. n : after[f] = before[f]
      BY <1>5, <1>6, <2>1, <2>2
    <2>4. Len(after) = Len(before) + 1 /\ before = SubSeq(after, 1, Len(before))
      BY <2>3, OneMore
    <2> QED BY <2>2, <2>4
  <1> QED BY <1>1, <1>7 DEF Promise!Read, Promise!replyVars, serveVars

(* A database is built of the networks of the lists, not of none.          *)
LEMMA BuildOpens ==
    ASSUME FilesInv, Build
    PROVE  Promise!Open
  <1>1. /\ stage = "parsing" /\ stage' = "serving" /\ FilePlaces # {}
        /\ UNCHANGED <<ipsets, contents>> /\ UNCHANGED serveVars
    BY DEF Build, AllParsed, fileVars
  <1>2. AllLines # {}
    BY <1>1, PlacesAreLines
  <1> QED BY <1>1, <1>2, LinesSeen, ListsStay DEF Promise!Open, Promise!replyVars, serveVars

(* A block is counted under the labels of the first line to blame.         *)
LEMMA BlockBlames ==
    ASSUME FilesInv, InsertedInv, RecordInv, CountInv, NEW address \in Addresses, BlockAddress(address)
    PROVE  Promise!Block(address)
  <1>1. PICK labels : labels = Labels(database[address], Hit(address))
    OBVIOUS
  <1>2. /\ Answer(address, TRUE, labels) /\ Hit(address) # 0
        /\ blocked' = blocked (+) SetToBag({labels}) /\ UNCHANGED allowed
    BY <1>1 DEF BlockAddress
  <1>3. /\ stage = "serving" /\ UNCHANGED <<stage, ipsets, contents>> /\ request' = address
        /\ reply' = [ip_bad |-> TRUE, labels |-> labels]
    BY <1>2 DEF Answer, fileVars
  <1>4. PICK first \in Guilty(address) :
          /\ \A other \in Guilty(address) \ {first} : Before(first, other)
          /\ labels = <<FileOf(first), HeaderOf(first)["Maintainer"], HeaderOf(first)["Category"]>>
    BY <1>1, <1>2, <1>3, HitIsGuilty
  <1>5. first \in AllLines
    BY ListingsAreLines DEF Guilty
  <1>6. labels = <<Promise!NameOf(first), Promise!At(first).maintainer, Promise!At(first).category>>
    BY <1>4, <1>5, LinesSeen
  <1>7. \A other \in Promise!Blamed(address) \ {first} : Promise!Earlier(first, other)
    BY <1>4, SameBlame DEF Before, Promise!Earlier
  <1>8. blocked' = Promise!CountedOnce(labels)
    <2>1. \A other \in DOMAIN blocked : blocked[other] \in Nat
      BY DEF CountInv, IsABag
    <2>2. /\ DOMAIN blocked' = DOMAIN blocked \cup {labels}
          /\ blocked'[labels] = IF labels \in DOMAIN blocked THEN blocked[labels] + 1 ELSE 1
          /\ \A other \in DOMAIN blocked \ {labels} : blocked'[other] = blocked[other]
          /\ blocked' = [other \in DOMAIN blocked' |-> blocked'[other]]
      BY <1>2, BlockAddsOne DEF CountInv
    <2> DEFINE sum(other) ==
          (IF other \in DOMAIN blocked THEN blocked[other] ELSE 0) + (IF other = labels THEN 1 ELSE 0)
    <2>3. ASSUME NEW other \in DOMAIN blocked' PROVE blocked'[other] = sum(other)
      <3>1. CASE other = labels
        BY <2>1, <2>2, <3>1
      <3>2. CASE other # labels
        <4>1. other \in DOMAIN blocked /\ blocked'[other] = blocked[other]
          BY <2>2, <2>3, <3>2
        <4> QED BY <2>1, <3>2, <4>1
      <3> QED BY <3>1, <3>2
    <2> HIDE DEF sum
    <2>4. blocked' = [other \in DOMAIN blocked \cup {labels} |-> sum(other)]
      BY <2>2, <2>3
    <2> QED BY <2>4 DEF sum, Promise!CountedOnce
  <1>9. Promise!Answer(address, TRUE, labels)
    BY <1>3, ListsStay DEF Promise!Answer, Promise!listVars
  <1>10. first \in Promise!Blamed(address)
    BY SameBlame
  <1> QED BY <1>2, <1>6, <1>7, <1>8, <1>9, <1>10 DEF Promise!Block

(* An address is allowed when no line is to blame.                         *)
LEMMA AllowHasNoBlame ==
    ASSUME FilesInv, InsertedInv, RecordInv, NEW address \in Addresses \cup {NotFound},
           Answer(address, FALSE, NoLabels), address \in Addresses => Hit(address) = 0,
           allowed' = allowed + 1, UNCHANGED blocked
    PROVE  Promise!Allow(address)
  <1>1. /\ stage = "serving" /\ UNCHANGED <<stage, ipsets, contents>> /\ request' = address
        /\ reply' = [ip_bad |-> FALSE, labels |-> NoLabels]
    BY DEF Answer, fileVars
  <1>2. Guilty(address) = {}
    <2>1. CASE address \in Addresses
      BY <1>1, <2>1, HitIsGuilty
    <2>2. CASE address = NotFound
      BY <2>2, NothingListsNotFound DEF Guilty
    <2> QED BY <2>1, <2>2
  <1> QED BY <1>1, <1>2, SameBlame, ListsStay DEF Promise!Allow, Promise!Answer, Promise!listVars

(* Every step is a step of Verdicts, or none.                              *)
LEMMA StepKeepsPromise ==
    ASSUME BlocklistInv, [Next]_vars
    PROVE  [Promise!Next]_(Promise!verdictVars)
  <1>1. ParserInv /\ FilesInv /\ InsertedInv /\ RecordInv /\ CountInv
    BY DEF BlocklistInv
  <1>2. CASE KeepFile
    BY <1>1, <1>2, KeepFileReads DEF Promise!Next
  <1>3. CASE Build
    BY <1>1, <1>3, BuildOpens DEF Promise!Next
  <1>4. ASSUME NEW address \in Addresses, AllowAddress(address) PROVE Promise!Next
    BY <1>1, <1>4, AllowHasNoBlame DEF AllowAddress, Promise!Next
  <1>5. ASSUME NEW address \in Addresses, BlockAddress(address) PROVE Promise!Next
    BY <1>1, <1>5, BlockBlames DEF Promise!Next
  <1>6. CASE AllowIPv6
    BY <1>1, <1>6, AllowHasNoBlame, BlocklistAssumption DEF AllowIPv6, Promise!Next
  <1>7. CASE NoVariable
    <2>1. /\ stage = "serving" /\ UNCHANGED <<stage, ipsets, contents>>
          /\ request' = NotFound /\ reply' = NoReply /\ UNCHANGED <<allowed, blocked>>
      BY <1>7 DEF NoVariable, fileVars
    <2> QED BY <2>1, ListsStay DEF Promise!Next, Promise!NoAnswer, Promise!listVars
  <1>8. ASSUME UNCHANGED <<ipsets, contents>>, UNCHANGED serveVars, stage = "serving" <=> stage' = "serving"
        PROVE  UNCHANGED Promise!verdictVars
    BY <1>8, ListsStay DEF Promise!verdictVars, Promise!listVars, Promise!replyVars, serveVars
  <1>9. ASSUME PassOver \/ ParseLine \/ SkipFile \/ NoEntries \/ UNCHANGED vars
        PROVE  UNCHANGED <<ipsets, contents>> /\ UNCHANGED serveVars /\ (stage = "serving" <=> stage' = "serving")
    BY <1>9 DEF PassOver, ParseLine, SkipFile, NextFile, NoEntries, AllParsed, fileVars, vars
  <1>10. ASSUME NEW place \in Remaining, Insert(place)
         PROVE  UNCHANGED <<ipsets, contents>> /\ UNCHANGED serveVars /\ (stage = "serving" <=> stage' = "serving")
    BY <1>10 DEF Insert, fileVars
  <1> QED BY <1>2, <1>3, <1>4, <1>5, <1>6, <1>7, <1>8, <1>9, <1>10 DEF Next, Handle

(* Requests are answered, and counted, as the lines of the lists say, one  *)
(* by one, whatever the sections, the merge and the indices in between do. *)
THEOREM KeepsVerdictsCorrect == Spec => KeepsVerdicts
  <1>1. Init => Promise!Init
    <2> SUFFICES ASSUME Init PROVE Promise!Init
      OBVIOUS
    <2>1. /\ stage = "parsing" /\ contents = <<>> /\ request = NotFound /\ reply = NoReply
          /\ allowed = 0 /\ blocked = EmptyBag
      BY DEF Init
    <2>2. ListsRead = <<>>
      BY <2>1, EmptySeq DEF ListsRead
    <2>3. blocked = [labels \in {} |-> 0]
      BY <2>1 DEF EmptyBag, SetToBag
    <2> QED BY <2>1, <2>2, <2>3 DEF Promise!Init
  <1>2. BlocklistInv /\ [Next]_vars => [Promise!Next]_(Promise!verdictVars)
    BY StepKeepsPromise
  <1> QED BY <1>1, <1>2, BlocklistInvariant, PTL DEF Spec, KeepsVerdicts, Promise!Spec
=============================================================================
