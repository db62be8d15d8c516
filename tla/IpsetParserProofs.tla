------------------------- MODULE IpsetParserProofs -------------------------
(***************************************************************************)
(* What holds of the parser for files of any length, any networks and any  *)
(* header values: its sections are never empty and never carry a value     *)
(* that did not convert, and they hold the networks of the file, in its    *)
(* order, each under the header of its line.                               *)
(***************************************************************************)
EXTENDS IpsetParser, SequenceTheorems, FiniteSetTheorems, TLAPS

Sections == [metadata : Metadata, networks : Seq(Networks)]

(* The header values a file starts with.                                   *)
LEMMA DefaultIsMetadata == Default \in Metadata
  BY HeaderAssumption DEF Default, Metadata, Values

(* A header line that converts sets a proper value.                        *)
LEMMA ConvertedIsMetadata ==
    ASSUME metadata \in Metadata, NEW key \in HeaderKeys, NEW raw \in Raw[key], Value[key][raw] # Invalid
    PROVE  [metadata EXCEPT ![key] = Value[key][raw]] \in Metadata
  <1>1. Value[key][raw] \in Values \ {Invalid}
    BY DEF Values
  <1> QED BY <1>1 DEF Metadata

(* Freezing adds a section that has networks, or none at all.              *)
LEMMA FreezeKeeps ==
    ASSUME ParserTypeOK, Freeze
    PROVE  /\ networks' \in Seq(Networks)
           /\ sections' \in Seq(Sections)
           /\ \A i \in DOMAIN sections' : sections'[i].networks # <<>>
  <1>1. CASE networks = <<>> /\ UNCHANGED <<networks, sections>>
    BY <1>1 DEF ParserTypeOK, Sections
  <1>2. CASE networks # <<>> /\ sections' = Append(sections, Section(metadata, networks)) /\ networks' = <<>>
    <2>1. /\ sections \in Seq(Sections) /\ Section(metadata, networks) \in Sections
          /\ \A i \in DOMAIN sections : sections[i].networks # <<>>
      BY DEF ParserTypeOK, Section, Sections
    <2>2. /\ sections' \in Seq(Sections) /\ Len(sections') = Len(sections) + 1
          /\ \A i \in 1 .. Len(sections) : sections'[i] = sections[i]
          /\ sections'[Len(sections) + 1] = Section(metadata, networks)
      BY <1>2, <2>1, AppendProperties
    <2>3. DOMAIN sections = 1 .. Len(sections) /\ DOMAIN sections' = 1 .. Len(sections') /\ Len(sections) \in Nat
      BY <2>1, <2>2, LenProperties
    <2>4. ASSUME NEW i \in DOMAIN sections' PROVE sections'[i].networks # <<>>
      <3>1. CASE i = Len(sections) + 1
        BY <1>2, <2>2, <3>1 DEF Section
      <3>2. CASE i # Len(sections) + 1
        <4>1. i \in DOMAIN sections /\ sections'[i] = sections[i]
          BY <2>2, <2>3, <2>4, <3>2
        <4> QED BY <2>1, <4>1
      <3> QED BY <3>1, <3>2
    <2>5. networks' \in Seq(Networks)
      BY <1>2, EmptySeq
    <2> QED BY <2>2, <2>4, <2>5
  <1> QED BY <1>1, <1>2 DEF Freeze

(* A line of the file is a line.                                           *)
LEMMA LineKinds ==
    /\ \A key \in HeaderKeys : \A raw \in Raw[key] : Header(key, raw) \in Lines
    /\ \A network \in Networks : Entry(network) \in Lines
    /\ Ignored \in Lines /\ Malformed \in Lines
  <1>1. ASSUME NEW key \in HeaderKeys, NEW raw \in Raw[key] PROVE Header(key, raw) \in Lines
    <2> DEFINE These == {Header(key, r) : r \in Raw[key]}
    <2>1. Header(key, raw) \in These
      OBVIOUS
    <2>2. These \in {{Header(k, r) : r \in Raw[k]} : k \in HeaderKeys}
      OBVIOUS
    <2> HIDE DEF These
    <2> QED BY <2>1, <2>2 DEF Lines
  <1>2. ASSUME NEW network \in Networks PROVE Entry(network) \in Lines
    BY DEF Lines
  <1> QED BY <1>1, <1>2 DEF Lines

(* Reading a line appends it.                                              *)
LEMMA ReadsKeeps ==
    ASSUME ParserTypeOK, NEW line \in Lines, Reads(line)
    PROVE  /\ outcome = "reading" /\ content' = Append(content, line)
           /\ content' \in Seq(Lines)
  BY AppendProperties DEF ParserTypeOK, Reads

LEMMA ParseKeeps == ParserTypeOK /\ [Parse]_parseVars => ParserTypeOK'
  <1> SUFFICES ASSUME ParserTypeOK, [Parse]_parseVars PROVE ParserTypeOK'
    OBVIOUS
  <1>1. ASSUME NEW key \in HeaderKeys, NEW raw \in Raw[key], InvalidHeader(key, raw) PROVE ParserTypeOK'
    BY <1>1, LineKinds, ReadsKeeps DEF InvalidHeader, ParserTypeOK
  <1>2. ASSUME NEW key \in HeaderKeys, NEW raw \in Raw[key], UnchangedHeader(key, raw) PROVE ParserTypeOK'
    BY <1>2, LineKinds, ReadsKeeps DEF UnchangedHeader, ParserTypeOK
  <1>3. ASSUME NEW key \in HeaderKeys, NEW raw \in Raw[key], ChangedHeader(key, raw) PROVE ParserTypeOK'
    <2>1. Value[key][raw] # Invalid /\ Freeze /\ metadata' = [metadata EXCEPT ![key] = Value[key][raw]]
          /\ outcome' = outcome
      BY <1>3 DEF ChangedHeader
    <2>2. metadata' \in Metadata
      BY <2>1, ConvertedIsMetadata DEF ParserTypeOK
    <2>3. content' \in Seq(Lines)
      BY <1>3, LineKinds, ReadsKeeps DEF ChangedHeader
    <2> QED BY <2>1, <2>2, <2>3, FreezeKeeps DEF ParserTypeOK, Sections
  <1>4. ASSUME NEW network \in Networks, NetworkLine(network) PROVE ParserTypeOK'
    <2>1. networks' \in Seq(Networks)
      BY <1>4, AppendProperties DEF NetworkLine, ParserTypeOK
    <2>2. content' \in Seq(Lines)
      BY <1>4, LineKinds, ReadsKeeps DEF NetworkLine
    <2> QED BY <1>4, <2>1, <2>2 DEF NetworkLine, ParserTypeOK
  <1>5. CASE IgnoredLine \/ MalformedLine
    BY <1>5, LineKinds, ReadsKeeps DEF IgnoredLine, MalformedLine, ParserTypeOK
  <1>6. CASE EndOfFile
    <2>1. Freeze /\ metadata' = metadata /\ outcome' = "ok" /\ content' = content
      BY <1>6 DEF EndOfFile
    <2> QED BY <2>1, FreezeKeeps DEF ParserTypeOK, Sections
  <1>7. CASE UNCHANGED parseVars
    BY <1>7 DEF parseVars, ParserTypeOK
  <1> QED BY <1>1, <1>2, <1>3, <1>4, <1>5, <1>6, <1>7 DEF Parse

(* A file that is not read yet has no line.                                *)
LEMMA StartIsTyped ==
    ASSUME StartOfFile
    PROVE  ParserTypeOK
  <1>1. \A S : <<>> \in Seq(S)
    BY EmptySeq
  <1>2. DOMAIN sections = {}
    BY DEF StartOfFile
  <1> QED BY <1>1, <1>2, DefaultIsMetadata DEF StartOfFile, ParserTypeOK

-----------------------------------------------------------------------------
(* Which header a network gets.                                            *)

(* A non-empty set of positions has a first and a last one.                *)
LEMMA FirstPosition ==
    ASSUME NEW S, S \subseteq Nat, S # {}
    PROVE  Min(S) \in S /\ \A n \in S : Min(S) <= n
  <1> DEFINE Less == OpToRel(<, Nat)
  <1>1. IsWellFoundedOn(Less, Nat)
    BY NatLessThanWellFounded
  <1>2. \A m, n \in Nat : n < m => <<n, m>> \in Less
    BY DEF OpToRel
  <1> HIDE DEF Less
  <1>3. PICK m \in S : \A n \in S : ~ (<<n, m>> \in Less)
    BY <1>1, WFMin
  <1>4. ASSUME NEW n \in S PROVE m <= n
    <2>1. m \in Nat /\ n \in Nat
      OBVIOUS
    <2>2. ~(n < m)
      BY <1>2, <1>3, <2>1
    <2> QED BY <2>1, <2>2
  <1> QED BY <1>4 DEF Min

LEMMA LastPosition ==
    ASSUME NEW N \in Nat, NEW S, S \subseteq 1 .. N, S # {}
    PROVE  Max(S) \in S /\ \A n \in S : n <= Max(S)
  <1> DEFINE T == {N - n : n \in S}
  <1>1. T \subseteq Nat /\ T # {}
    <2>1. \A n \in S : N - n \in Nat
      <3> SUFFICES ASSUME NEW n \in S PROVE N - n \in Nat
        OBVIOUS
      <3>1. n \in Nat /\ n <= N
        OBVIOUS
      <3> QED BY <3>1
    <2> QED BY <2>1
  <1> HIDE DEF T
  <1>2. Min(T) \in T /\ \A u \in T : Min(T) <= u
    BY <1>1, FirstPosition
  <1>3. PICK t \in T : \A u \in T : t <= u
    BY <1>2
  <1>4. PICK m \in S : t = N - m
    BY DEF T
  <1>5. \A n \in S : n <= m
    <2> SUFFICES ASSUME NEW n \in S PROVE n <= m
      OBVIOUS
    <2>1. N - n \in T
      BY DEF T
    <2>2. N - m <= N - n
      BY <1>3, <1>4, <2>1
    <2> QED BY <2>2
  <1> QED BY <1>5 DEF Max

(* The lines before the next one decide its header.                        *)
LEMMA HeaderOfEarlierLine ==
    ASSUME NEW lines \in Seq(Lines), NEW line \in Lines, NEW i \in 1 .. Len(lines) + 1
    PROVE  HeaderAt(Append(lines, line), i) = HeaderAt(lines, i)
  <1> DEFINE more == Append(lines, line)
             earlier(seq, key) == {j \in 1 .. i - 1 : seq[j].kind = "header" /\ seq[j].key = key}
  <1>1. Len(lines) \in Nat /\ \A j \in 1 .. i - 1 : j \in 1 .. Len(lines) /\ more[j] = lines[j]
    BY AppendProperties, LenProperties
  <1> HIDE DEF more
  <1>2. ASSUME NEW key \in HeaderKeys
        PROVE  /\ earlier(more, key) = earlier(lines, key)
               /\ earlier(lines, key) # {} => more[Max(earlier(lines, key))] = lines[Max(earlier(lines, key))]
    <2>1. earlier(more, key) = earlier(lines, key)
      BY <1>1
    <2>2. earlier(lines, key) \subseteq 1 .. Len(lines)
      BY <1>1
    <2>3. ASSUME earlier(lines, key) # {} PROVE Max(earlier(lines, key)) \in earlier(lines, key)
      <3> DEFINE S == earlier(lines, key)
      <3> HIDE DEF S
      <3>1. S \subseteq 1 .. Len(lines) /\ S # {}
        BY <2>2, <2>3 DEF S
      <3>2. Max(S) \in S
        BY <1>1, <3>1, LastPosition
      <3> QED BY <3>2 DEF S
    <2> QED BY <1>1, <2>1, <2>3
  <1> QED BY <1>2 DEF HeaderAt, more

(* A header line changes its own key for the lines after it.               *)
LEMMA HeaderAfterHeader ==
    ASSUME NEW lines \in Seq(Lines), NEW key \in HeaderKeys, NEW raw \in Raw[key]
    PROVE  HeaderAt(Append(lines, Header(key, raw)), Len(lines) + 2)
             = [HeaderAt(lines, Len(lines) + 1) EXCEPT ![key] = Value[key][raw]]
  <1> DEFINE more == Append(lines, Header(key, raw))
             N == Len(lines)
             earlier(seq, n, k) == {j \in 1 .. n : seq[j].kind = "header" /\ seq[j].key = k}
  <1>1. N \in Nat /\ more[N + 1] = Header(key, raw) /\ \A j \in 1 .. N : more[j] = lines[j]
    BY LineKinds, AppendProperties, LenProperties
  <1>2. (N + 2) - 1 = N + 1 /\ (N + 1) - 1 = N
    BY <1>1
  <1> HIDE DEF more, N
  <1>3. ASSUME NEW k \in HeaderKeys, k # key
        PROVE  /\ earlier(more, N + 1, k) = earlier(lines, N, k)
               /\ earlier(lines, N, k) # {} =>
                     more[Max(earlier(lines, N, k))] = lines[Max(earlier(lines, N, k))]
    <2>1. \A j \in 1 .. N + 1 : more[j].kind = "header" /\ more[j].key = k => j # N + 1
      BY <1>1, <1>3 DEF Header
    <2>2. earlier(more, N + 1, k) = earlier(lines, N, k)
      BY <1>1, <2>1
    <2> DEFINE S == earlier(lines, N, k)
    <2>3. S \subseteq 1 .. N
      OBVIOUS
    <2> HIDE DEF S
    <2>4. S # {} => Max(S) \in 1 .. N
      BY <1>1, <2>3, LastPosition
    <2> QED BY <1>1, <2>2, <2>4 DEF S
  <1>4. earlier(more, N + 1, key) # {} /\ more[Max(earlier(more, N + 1, key))] = Header(key, raw)
    <2> DEFINE S == earlier(more, N + 1, key)
    <2>1. S \subseteq 1 .. N + 1 /\ N + 1 \in S
      BY <1>1 DEF Header
    <2> HIDE DEF S
    <2> DEFINE M == N + 1
    <2>2. M \in Nat /\ S \subseteq 1 .. M /\ S # {} /\ M \in S
      BY <1>1, <2>1
    <2> HIDE DEF M
    <2>3. Max(S) \in 1 .. M /\ M <= Max(S)
      BY <2>2, LastPosition
    <2>4. Max(S) = N + 1
      BY <2>2, <2>3 DEF M
    <2> QED BY <1>1, <2>1, <2>4 DEF S
  <1> DEFINE next == HeaderAt(more, N + 2)
             this == HeaderAt(lines, N + 1)
  <1>5. next[key] = Value[key][raw]
    <2>1. next[key] = Value[key][more[Max(earlier(more, N + 1, key))].raw]
      BY <1>2, <1>4 DEF HeaderAt
    <2>2. Header(key, raw).raw = raw
      BY DEF Header
    <2> QED BY <1>4, <2>1, <2>2
  <1>6. ASSUME NEW k \in HeaderKeys, k # key PROVE next[k] = this[k]
    BY <1>2, <1>3, <1>6 DEF HeaderAt
  <1>7. next = [k \in HeaderKeys |-> next[k]] /\ this = [k \in HeaderKeys |-> this[k]]
    BY DEF HeaderAt
  <1> HIDE DEF next, this
  <1>8. next = [this EXCEPT ![key] = Value[key][raw]]
    BY <1>5, <1>6, <1>7
  <1> QED BY <1>8 DEF next, this, more, N

(* Any other line changes no header.                                       *)
LEMMA HeaderAfterOther ==
    ASSUME NEW lines \in Seq(Lines), NEW line \in Lines, line.kind # "header"
    PROVE  HeaderAt(Append(lines, line), Len(lines) + 2) = HeaderAt(lines, Len(lines) + 1)
  <1> DEFINE more == Append(lines, line)
             N == Len(lines)
             earlier(seq, n, k) == {j \in 1 .. n : seq[j].kind = "header" /\ seq[j].key = k}
  <1>1. N \in Nat /\ more[N + 1] = line /\ \A j \in 1 .. N : more[j] = lines[j]
    BY AppendProperties, LenProperties
  <1>2. (N + 2) - 1 = N + 1 /\ (N + 1) - 1 = N
    BY <1>1
  <1> HIDE DEF more, N
  <1>3. ASSUME NEW k \in HeaderKeys
        PROVE  /\ earlier(more, N + 1, k) = earlier(lines, N, k)
               /\ earlier(lines, N, k) # {} =>
                     more[Max(earlier(lines, N, k))] = lines[Max(earlier(lines, N, k))]
    <2>1. \A j \in 1 .. N + 1 : more[j].kind = "header" => j # N + 1
      BY <1>1
    <2>2. earlier(more, N + 1, k) = earlier(lines, N, k)
      BY <1>1, <2>1
    <2> DEFINE S == earlier(lines, N, k)
    <2>3. S \subseteq 1 .. N
      OBVIOUS
    <2> HIDE DEF S
    <2>4. S # {} => Max(S) \in 1 .. N
      BY <1>1, <2>3, LastPosition
    <2> QED BY <1>1, <2>2, <2>4 DEF S
  <1>4. HeaderAt(more, N + 2) = HeaderAt(lines, N + 1)
    BY <1>2, <1>3 DEF HeaderAt
  <1> QED BY <1>4 DEF more, N

-----------------------------------------------------------------------------
(* The networks of the sections are those of the file.                     *)

(* `line` says at which line of the file the network at a place stands: it *)
(* keeps the order, it leaves out no network line, and the place has the   *)
(* network and the header of its line.                                     *)
Lists(line, parsed, lines) ==
    /\ line \in [Places(parsed) -> NetworkLines(lines)]
    /\ \A p, q \in Places(parsed) : Before(p, q) => line[p] < line[q]
    /\ \A i \in NetworkLines(lines) : \E p \in Places(parsed) : line[p] = i
    /\ \A p \in Places(parsed) :
          /\ parsed[p[1]].networks[p[2]] = lines[line[p]].network
          /\ parsed[p[1]].metadata = HeaderAt(lines, line[p])

(* The parser knows the header of the next line, and everything it has     *)
(* read is in its place.                                                   *)
ParserInv ==
    /\ ParserTypeOK
    /\ outcome = "ok" => networks = <<>>
    /\ outcome # "failed" =>
          /\ metadata = HeaderAt(content, Len(content) + 1)
          /\ \E line : Lists(line, Parsed, content)

(* Two lists of sections that hold the same networks at the same places.   *)
SamePlaces(parsed, other) ==
    /\ Places(parsed) = Places(other)
    /\ \A p \in Places(parsed) :
          /\ parsed[p[1]].networks[p[2]] = other[p[1]].networks[p[2]]
          /\ parsed[p[1]].metadata = other[p[1]].metadata

(* A place is a section and a position in it.                              *)
LEMMA PlaceInSection ==
    ASSUME NEW parsed, NEW p
    PROVE  p \in Places(parsed) <=>
              \E s \in DOMAIN parsed : \E n \in DOMAIN parsed[s].networks : p = <<s, n>>
  BY DEF Places

(* A section without networks adds no place.                               *)
LEMMA EmptySectionAddsNothing ==
    ASSUME NEW parsed \in Seq(Sections), NEW header \in Metadata
    PROVE  SamePlaces(parsed, Append(parsed, Section(header, <<>>)))
  <1> DEFINE empty == Section(header, <<>>)
             more == Append(parsed, empty)
             N == Len(parsed)
  <1>1. empty \in Sections /\ DOMAIN empty.networks = {}
    BY EmptySeq DEF Section, Sections
  <1> HIDE DEF empty
  <1>2. /\ N \in Nat /\ DOMAIN parsed = 1 .. N /\ DOMAIN more = 1 .. N + 1
        /\ more[N + 1] = empty /\ \A s \in 1 .. N : more[s] = parsed[s]
    BY <1>1, AppendProperties, LenProperties
  <1> HIDE DEF more, N
  <1>3. Places(parsed) = Places(more)
    <2>1. ASSUME NEW p \in Places(parsed) PROVE p \in Places(more)
      <3>1. PICK s \in DOMAIN parsed : \E n \in DOMAIN parsed[s].networks : p = <<s, n>>
        BY PlaceInSection
      <3>2. s \in DOMAIN more /\ more[s] = parsed[s]
        BY <1>2
      <3> QED BY <3>1, <3>2, PlaceInSection
    <2>2. ASSUME NEW p \in Places(more) PROVE p \in Places(parsed)
      <3>1. PICK s \in DOMAIN more : \E n \in DOMAIN more[s].networks : p = <<s, n>>
        BY PlaceInSection
      <3>2. s # N + 1
        BY <1>1, <1>2, <3>1
      <3>3. s \in DOMAIN parsed /\ more[s] = parsed[s]
        BY <1>2, <3>2
      <3> QED BY <3>1, <3>3, PlaceInSection
    <2> QED BY <2>1, <2>2
  <1>4. ASSUME NEW p \in Places(parsed) PROVE more[p[1]] = parsed[p[1]]
    <2>1. PICK s \in DOMAIN parsed : \E n \in DOMAIN parsed[s].networks : p = <<s, n>>
      BY PlaceInSection
    <2> QED BY <1>2, <2>1
  <1>5. SamePlaces(parsed, more)
    BY <1>3, <1>4 DEF SamePlaces
  <1> QED BY <1>5 DEF more, empty

(* Freezing moves no network, whatever the header becomes.                 *)
LEMMA FreezeMovesNothing ==
    ASSUME ParserTypeOK, Freeze, metadata' \in Metadata
    PROVE  SamePlaces(Parsed, Parsed')
  <1>1. sections \in Seq(Sections) /\ metadata \in Metadata /\ networks \in Seq(Networks)
    BY DEF ParserTypeOK, Sections
  <1>2. CASE networks = <<>> /\ UNCHANGED <<networks, sections>>
    <2>1. SamePlaces(sections, Parsed)
      BY <1>1, <1>2, EmptySectionAddsNothing DEF Parsed
    <2>2. Parsed' = Append(sections, Section(metadata', <<>>))
      BY <1>2 DEF Parsed, Section
    <2>3. SamePlaces(sections, Parsed')
      BY <1>1, <2>2, EmptySectionAddsNothing
    <2> QED BY <2>1, <2>3 DEF SamePlaces
  <1>3. CASE networks # <<>> /\ sections' = Append(sections, Section(metadata, networks)) /\ networks' = <<>>
    <2>1. Parsed \in Seq(Sections)
      <3>1. Section(metadata, networks) \in Sections
        BY <1>1 DEF Section, Sections
      <3> QED BY <1>1, <3>1, AppendProperties DEF Parsed
    <2>2. Parsed' = Append(Parsed, Section(metadata', <<>>))
      BY <1>3 DEF Parsed, Section
    <2> QED BY <2>1, <2>2, EmptySectionAddsNothing
  <1> QED BY <1>2, <1>3 DEF Freeze

(* A line that is no network lists nothing.                                *)
LEMMA OtherLineListsNothing ==
    ASSUME NEW lines \in Seq(Lines), NEW other \in Lines, other.kind # "network",
           NEW parsed, NEW later, SamePlaces(parsed, later),
           NEW line, Lists(line, parsed, lines)
    PROVE  Lists(line, later, Append(lines, other))
  <1> DEFINE more == Append(lines, other)
             N == Len(lines)
  <1>1. /\ N \in Nat /\ DOMAIN lines = 1 .. N /\ DOMAIN more = 1 .. N + 1
        /\ more[N + 1] = other /\ \A i \in 1 .. N : more[i] = lines[i]
    BY AppendProperties, LenProperties
  <1>2. \A i \in 1 .. N : HeaderAt(more, i) = HeaderAt(lines, i)
    BY <1>1, HeaderOfEarlierLine
  <1> HIDE DEF more, N
  <1>3. NetworkLines(more) = NetworkLines(lines)
    BY <1>1 DEF NetworkLines
  <1>4. ASSUME NEW p \in Places(parsed)
        PROVE  more[line[p]] = lines[line[p]] /\ HeaderAt(more, line[p]) = HeaderAt(lines, line[p])
    <2>1. line[p] \in 1 .. N
      BY <1>1 DEF Lists, NetworkLines
    <2> QED BY <1>1, <1>2, <2>1
  <1>5. Lists(line, later, more)
    BY <1>3, <1>4 DEF Lists, SamePlaces
  <1> QED BY <1>5 DEF more

(* A network added to the last section gets a place after all others.      *)
LEMMA NetworkGetsLastPlace ==
    ASSUME NEW parsed, NEW later, NEW K \in Nat, NEW N \in Nat,
           DOMAIN parsed = 1 .. K + 1, DOMAIN later = 1 .. K + 1,
           \A s \in 1 .. K : later[s] = parsed[s],
           DOMAIN parsed[K + 1].networks = 1 .. N, DOMAIN later[K + 1].networks = 1 .. N + 1,
           \A n \in 1 .. N : later[K + 1].networks[n] = parsed[K + 1].networks[n],
           later[K + 1].metadata = parsed[K + 1].metadata,
           NEW last, last = <<K + 1, N + 1>>
    PROVE  /\ Places(later) = Places(parsed) \cup {last} /\ last \notin Places(parsed)
           /\ \A p \in Places(parsed) :
                 /\ Before(p, last) /\ ~Before(last, p)
                 /\ later[p[1]].networks[p[2]] = parsed[p[1]].networks[p[2]]
                 /\ later[p[1]].metadata = parsed[p[1]].metadata
  <1>1. ASSUME NEW p \in Places(parsed)
        PROVE  /\ p \in Places(later) /\ Before(p, last) /\ ~Before(last, p) /\ p # last
               /\ later[p[1]].networks[p[2]] = parsed[p[1]].networks[p[2]]
               /\ later[p[1]].metadata = parsed[p[1]].metadata
    <2>1. PICK s \in 1 .. K + 1 : \E n \in DOMAIN parsed[s].networks : p = <<s, n>>
      BY PlaceInSection
    <2>2. PICK n \in DOMAIN parsed[s].networks : p = <<s, n>>
      BY <2>1
    <2>3. CASE s = K + 1
      <3>1. n \in 1 .. N
        BY <2>2, <2>3
      <3>2. p \in Places(later)
        <4>1. n \in DOMAIN later[s].networks /\ s \in DOMAIN later
          BY <2>3, <3>1
        <4> QED BY <2>2, <4>1, PlaceInSection
      <3>3. Before(p, last) /\ ~Before(last, p) /\ p # last
        BY <2>2, <2>3, <3>1 DEF Before
      <3> QED BY <2>2, <2>3, <3>1, <3>2, <3>3
    <2>4. CASE s # K + 1
      <3>1. s \in 1 .. K /\ later[s] = parsed[s]
        BY <2>4
      <3>2. p \in Places(later)
        <4>1. s \in DOMAIN later /\ n \in DOMAIN later[s].networks
          BY <3>1
        <4> QED BY <2>2, <4>1, PlaceInSection
      <3>3. Before(p, last) /\ ~Before(last, p) /\ p # last
        BY <2>2, <3>1 DEF Before
      <3> QED BY <2>2, <3>1, <3>2, <3>3
    <2> QED BY <2>3, <2>4
  <1>2. last \in Places(later)
    <2>1. K + 1 \in DOMAIN later /\ N + 1 \in DOMAIN later[K + 1].networks
      OBVIOUS
    <2> QED BY <2>1, PlaceInSection
  <1>3. ASSUME NEW p \in Places(later), p # last PROVE p \in Places(parsed)
    <2>1. PICK s \in 1 .. K + 1 : \E n \in DOMAIN later[s].networks : p = <<s, n>>
      BY PlaceInSection
    <2>2. PICK n \in DOMAIN later[s].networks : p = <<s, n>>
      BY <2>1
    <2>3. s \in DOMAIN parsed /\ n \in DOMAIN parsed[s].networks
      <3>1. CASE s = K + 1
        <4>1. n \in 1 .. N + 1 /\ n # N + 1
          BY <1>3, <2>2, <3>1
        <4> QED BY <3>1, <4>1
      <3>2. CASE s # K + 1
        BY <2>2, <3>2
      <3> QED BY <3>1, <3>2
    <2> QED BY <2>2, <2>3, PlaceInSection
  <1> QED BY <1>1, <1>2, <1>3

(* A network line lists its network, under the header of that line.        *)
LEMMA NetworkLineListsIt ==
    ASSUME ParserInv, NEW network \in Networks, NetworkLine(network), outcome = "reading"
    PROVE  \E line : Lists(line, Parsed', content')
  <1> DEFINE N == Len(content)
             last == <<Len(sections) + 1, Len(networks) + 1>>
             old == Parsed
             new == Parsed'
             lines == content
             more == content'
  <1>1. /\ content \in Seq(Lines) /\ metadata \in Metadata /\ networks \in Seq(Networks)
        /\ sections \in Seq(Sections) /\ metadata = HeaderAt(content, N + 1)
    BY DEF ParserInv, ParserTypeOK, Sections
  <1>2. /\ networks' = Append(networks, network) /\ metadata' = metadata /\ sections' = sections
        /\ content' = Append(content, Entry(network))
    BY DEF NetworkLine, Reads
  <1>3. Entry(network) \in Lines /\ Entry(network).kind = "network" /\ Entry(network).network = network
    BY LineKinds DEF Entry
  <1>4. PICK line : Lists(line, old, lines)
    BY DEF ParserInv
  <1>5. /\ Places(new) = Places(old) \cup {last} /\ last \notin Places(old)
        /\ \A p \in Places(old) :
              /\ Before(p, last) /\ ~Before(last, p)
              /\ new[p[1]].networks[p[2]] = old[p[1]].networks[p[2]]
              /\ new[p[1]].metadata = old[p[1]].metadata
        /\ new[last[1]].networks[last[2]] = network
        /\ new[last[1]].metadata = metadata
    <2> DEFINE K == Len(sections)
               M == Len(networks)
               before == Section(metadata, networks)
               after == Section(metadata, Append(networks, network))
    <2>1. /\ M \in Nat /\ DOMAIN networks = 1 .. M
          /\ DOMAIN Append(networks, network) = 1 .. M + 1 /\ Append(networks, network)[M + 1] = network
          /\ \A n \in 1 .. M : Append(networks, network)[n] = networks[n]
          /\ Append(networks, network) \in Seq(Networks)
      BY <1>1, AppendProperties, LenProperties
    <2>2. before \in Sections /\ after \in Sections
      BY <1>1, <2>1 DEF Section, Sections
    <2>3. /\ DOMAIN before.networks = 1 .. M /\ DOMAIN after.networks = 1 .. M + 1
          /\ after.networks[M + 1] = network
          /\ \A n \in 1 .. M : after.networks[n] = before.networks[n]
          /\ before.metadata = metadata /\ after.metadata = metadata
      BY <2>1 DEF Section
    <2>4. old = Append(sections, before) /\ new = Append(sections, after)
      BY <1>2 DEF Parsed
    <2> HIDE DEF before, after
    <2>5. /\ K \in Nat /\ DOMAIN old = 1 .. K + 1 /\ DOMAIN new = 1 .. K + 1
          /\ old[K + 1] = before /\ new[K + 1] = after
          /\ \A s \in 1 .. K : new[s] = old[s]
      BY <1>1, <2>2, <2>4, AppendProperties, LenProperties
    <2>6. last = <<K + 1, M + 1>>
      OBVIOUS
    <2> HIDE DEF old, new, K, M, last
    <2>7. /\ DOMAIN old[K + 1].networks = 1 .. M /\ DOMAIN new[K + 1].networks = 1 .. M + 1
          /\ \A n \in 1 .. M : new[K + 1].networks[n] = old[K + 1].networks[n]
          /\ new[K + 1].metadata = old[K + 1].metadata
      BY <2>3, <2>5
    <2>8. K \in Nat /\ M \in Nat /\ DOMAIN old = 1 .. K + 1 /\ DOMAIN new = 1 .. K + 1
          /\ \A s \in 1 .. K : new[s] = old[s]
      BY <2>1, <2>5
    <2>9. /\ Places(new) = Places(old) \cup {last} /\ last \notin Places(old)
          /\ \A p \in Places(old) :
                /\ Before(p, last) /\ ~Before(last, p)
                /\ new[p[1]].networks[p[2]] = old[p[1]].networks[p[2]]
                /\ new[p[1]].metadata = old[p[1]].metadata
      BY <2>6, <2>7, <2>8, NetworkGetsLastPlace
    <2>10. new[last[1]].networks[last[2]] = network /\ new[last[1]].metadata = metadata
      BY <2>3, <2>5, <2>6
    <2> QED BY <2>9, <2>10
  <1>6. /\ N \in Nat /\ DOMAIN lines = 1 .. N /\ DOMAIN more = 1 .. N + 1
        /\ more[N + 1] = Entry(network) /\ \A i \in 1 .. N : more[i] = lines[i]
    BY <1>1, <1>2, <1>3, AppendProperties, LenProperties
  <1>7. \A i \in 1 .. N + 1 : HeaderAt(more, i) = HeaderAt(lines, i)
    BY <1>1, <1>2, <1>3, HeaderOfEarlierLine
  <1>8. ~Before(last, last)
    <2>1. Len(sections) \in Nat /\ Len(networks) \in Nat
      BY <1>1, LenProperties
    <2> QED BY <2>1 DEF Before
  <1> DEFINE line2 == [p \in Places(new) |-> IF p = last THEN N + 1 ELSE line[p]]
  <1> HIDE DEF N, last, old, new, lines, more
  <1>9. NetworkLines(more) = NetworkLines(lines) \cup {N + 1}
    BY <1>3, <1>6 DEF NetworkLines
  <1>10. \A p \in Places(old) : line[p] \in NetworkLines(lines) /\ line[p] \in 1 .. N /\ line2[p] = line[p]
    BY <1>4, <1>5, <1>6 DEF Lists, NetworkLines
  <1>11. line2[last] = N + 1
    BY <1>5
  <1>12. line2 \in [Places(new) -> NetworkLines(more)]
    BY <1>5, <1>9, <1>10
  <1> HIDE DEF line2
  <1>13. ASSUME NEW p \in Places(new), NEW q \in Places(new), Before(p, q) PROVE line2[p] < line2[q]
    <2>1. CASE p \in Places(old) /\ q \in Places(old)
      BY <1>4, <1>10, <1>13, <2>1 DEF Lists
    <2>2. CASE p \in Places(old) /\ q = last
      BY <1>6, <1>10, <1>11, <2>2
    <2>3. p # last
      BY <1>5, <1>8, <1>13
    <2> QED BY <1>5, <2>1, <2>2, <2>3
  <1>14. ASSUME NEW i \in NetworkLines(more) PROVE \E p \in Places(new) : line2[p] = i
    <2>1. CASE i = N + 1
      BY <1>5, <1>11, <2>1
    <2>2. CASE i \in NetworkLines(lines)
      <3>1. PICK p \in Places(old) : line[p] = i
        BY <1>4, <2>2 DEF Lists
      <3> QED BY <1>5, <1>10, <3>1
    <2> QED BY <1>9, <2>1, <2>2
  <1>15. ASSUME NEW p \in Places(new)
         PROVE  /\ new[p[1]].networks[p[2]] = more[line2[p]].network
                /\ new[p[1]].metadata = HeaderAt(more, line2[p])
    <2>1. CASE p = last
      <3>1. N + 1 \in 1 .. N + 1
        BY <1>6
      <3>2. HeaderAt(more, N + 1) = metadata
        BY <1>1, <1>7, <3>1 DEF N, lines
      <3> QED BY <1>3, <1>5, <1>6, <1>11, <2>1, <3>2
    <2>2. CASE p \in Places(old)
      <3>1. line2[p] = line[p] /\ line[p] \in 1 .. N /\ line[p] \in 1 .. N + 1
        BY <1>6, <1>10, <2>2
      <3>2. old[p[1]].networks[p[2]] = lines[line[p]].network /\ old[p[1]].metadata = HeaderAt(lines, line[p])
        BY <1>4, <2>2 DEF Lists
      <3> QED BY <1>5, <1>6, <1>7, <2>2, <3>1, <3>2
    <2> QED BY <1>5, <2>1, <2>2
  <1>16. Lists(line2, new, more)
    BY <1>12, <1>13, <1>14, <1>15 DEF Lists
  <1> QED BY <1>16 DEF new, more

(* Every line keeps the invariant of the parser.                           *)
LEMMA ParserInvStarts == StartOfFile => ParserInv
  <1> SUFFICES ASSUME StartOfFile PROVE ParserInv
    OBVIOUS
  <1>1. ParserTypeOK
    BY StartIsTyped
  <1>2. networks = <<>> /\ sections = <<>> /\ content = <<>> /\ metadata = Default /\ outcome = "reading"
    BY DEF StartOfFile
  <1>3. metadata = HeaderAt(content, Len(content) + 1)
    <2>1. Len(<<>>) = 0 /\ 1 .. (0 + 1) - 1 = {}
      OBVIOUS
    <2> QED BY <1>2, <2>1 DEF HeaderAt, Default
  <1>4. Lists(<<>>, Parsed, content)
    <2>1. SamePlaces(<<>>, Parsed)
      <3>1. <<>> \in Seq(Sections) /\ metadata \in Metadata
        BY <1>1, EmptySeq DEF ParserTypeOK
      <3> QED BY <1>2, <3>1, EmptySectionAddsNothing DEF Parsed
    <2>2. Places(Parsed) = {} /\ NetworkLines(content) = {}
      BY <1>2, <2>1 DEF SamePlaces, Places, NetworkLines
    <2> QED BY <2>2 DEF Lists
  <1> QED BY <1>1, <1>2, <1>3, <1>4 DEF ParserInv

LEMMA ParserInvKeeps == ParserInv /\ [Parse]_parseVars => ParserInv'
  <1> SUFFICES ASSUME ParserInv, [Parse]_parseVars PROVE ParserInv'
    OBVIOUS
  <1>1. ParserTypeOK /\ ParserTypeOK'
    BY ParseKeeps DEF ParserInv
  <1>2. content \in Seq(Lines) /\ metadata \in Metadata
    BY <1>1 DEF ParserTypeOK
  <1>3. ASSUME outcome' = "failed" PROVE ParserInv'
    BY <1>1, <1>3 DEF ParserInv
  <1>4. ASSUME NEW other \in Lines, other.kind # "network", outcome = "reading", outcome' = "reading",
               content' = Append(content, other), SamePlaces(Parsed, Parsed'),
               metadata' = HeaderAt(content', Len(content) + 2)
        PROVE  ParserInv'
    <2>1. PICK line : Lists(line, Parsed, content)
      BY <1>4 DEF ParserInv
    <2>2. Lists(line, Parsed', content')
      BY <1>2, <1>4, <2>1, OtherLineListsNothing
    <2>3. Len(content') + 1 = Len(content) + 2
      BY <1>2, <1>4, AppendProperties, LenProperties
    <2> QED BY <1>1, <1>4, <2>2, <2>3 DEF ParserInv
  <1>5. SamePlaces(Parsed, Parsed)
    BY DEF SamePlaces
  <1>6. ASSUME NEW key \in HeaderKeys, NEW raw \in Raw[key], InvalidHeader(key, raw) PROVE ParserInv'
    BY <1>3, <1>6 DEF InvalidHeader
  <1>7. ASSUME NEW key \in HeaderKeys, NEW raw \in Raw[key], UnchangedHeader(key, raw) PROVE ParserInv'
    <2>1. /\ outcome = "reading" /\ outcome' = "reading" /\ content' = Append(content, Header(key, raw))
          /\ Value[key][raw] = metadata[key] /\ UNCHANGED <<metadata, networks, sections>>
      BY <1>7 DEF UnchangedHeader, Reads
    <2>2. Parsed' = Parsed
      BY <2>1 DEF Parsed
    <2>3. metadata = HeaderAt(content, Len(content) + 1)
      BY <2>1 DEF ParserInv
    <2>4. metadata = [metadata EXCEPT ![key] = Value[key][raw]]
      BY <1>2, <2>1 DEF Metadata
    <2>5. metadata' = HeaderAt(content', Len(content) + 2)
      BY <1>2, <2>1, <2>3, <2>4, HeaderAfterHeader
    <2>6. Header(key, raw) \in Lines /\ Header(key, raw).kind # "network"
      BY LineKinds DEF Header
    <2> QED BY <1>4, <1>5, <2>1, <2>2, <2>5, <2>6
  <1>8. ASSUME NEW key \in HeaderKeys, NEW raw \in Raw[key], ChangedHeader(key, raw) PROVE ParserInv'
    <2>1. /\ outcome = "reading" /\ outcome' = "reading" /\ content' = Append(content, Header(key, raw))
          /\ Freeze /\ metadata' = [metadata EXCEPT ![key] = Value[key][raw]]
      BY <1>8 DEF ChangedHeader, Reads
    <2>2. metadata = HeaderAt(content, Len(content) + 1)
      BY <2>1 DEF ParserInv
    <2>3. metadata' = HeaderAt(content', Len(content) + 2)
      BY <1>2, <2>1, <2>2, HeaderAfterHeader
    <2>4. SamePlaces(Parsed, Parsed')
      BY <1>1, <2>1, FreezeMovesNothing DEF ParserTypeOK
    <2>5. Header(key, raw) \in Lines /\ Header(key, raw).kind # "network"
      BY LineKinds DEF Header
    <2> QED BY <1>4, <2>1, <2>3, <2>4, <2>5
  <1>9. ASSUME NEW network \in Networks, NetworkLine(network) PROVE ParserInv'
    <2>1. /\ outcome = "reading" /\ outcome' = "reading" /\ content' = Append(content, Entry(network))
          /\ metadata' = metadata
      BY <1>9 DEF NetworkLine, Reads
    <2>2. \E line : Lists(line, Parsed', content')
      BY <1>9, <2>1, NetworkLineListsIt
    <2>3. Entry(network) \in Lines /\ Entry(network).kind # "header"
      BY LineKinds DEF Entry
    <2>4. metadata = HeaderAt(content, Len(content) + 1)
      BY <2>1 DEF ParserInv
    <2>5. metadata' = HeaderAt(content', Len(content) + 2)
      BY <1>2, <2>1, <2>3, <2>4, HeaderAfterOther
    <2>6. Len(content') + 1 = Len(content) + 2
      BY <1>2, <2>1, <2>3, AppendProperties, LenProperties
    <2> QED BY <1>1, <2>1, <2>2, <2>5, <2>6 DEF ParserInv
  <1>10. CASE IgnoredLine
    <2>1. /\ outcome = "reading" /\ outcome' = "reading" /\ content' = Append(content, Ignored)
          /\ UNCHANGED <<metadata, networks, sections>>
      BY <1>10 DEF IgnoredLine, Reads
    <2>2. Parsed' = Parsed
      BY <2>1 DEF Parsed
    <2>3. Ignored \in Lines /\ Ignored.kind \notin {"header", "network"}
      BY LineKinds DEF Ignored
    <2>4. metadata = HeaderAt(content, Len(content) + 1)
      BY <2>1 DEF ParserInv
    <2>5. metadata' = HeaderAt(content', Len(content) + 2)
      BY <1>2, <2>1, <2>3, <2>4, HeaderAfterOther
    <2> QED BY <1>4, <1>5, <2>1, <2>2, <2>3, <2>5
  <1>11. CASE MalformedLine
    BY <1>3, <1>11 DEF MalformedLine
  <1>12. CASE EndOfFile
    <2>1. outcome = "reading" /\ outcome' = "ok" /\ Freeze /\ UNCHANGED <<content, metadata>> /\ networks' = <<>>
      BY <1>12 DEF EndOfFile, Freeze
    <2>2. SamePlaces(Parsed, Parsed')
      BY <1>1, <2>1, FreezeMovesNothing DEF ParserTypeOK
    <2>3. PICK line : Lists(line, Parsed, content)
      BY <2>1 DEF ParserInv
    <2>4. Lists(line, Parsed', content')
      BY <2>1, <2>2, <2>3 DEF Lists, SamePlaces
    <2>5. metadata' = HeaderAt(content', Len(content') + 1)
      BY <2>1 DEF ParserInv
    <2> QED BY <1>1, <2>1, <2>4, <2>5 DEF ParserInv
  <1>13. CASE UNCHANGED parseVars
    <2>1. UNCHANGED <<content, metadata, networks, sections, outcome>>
      BY <1>13 DEF parseVars
    <2>2. Parsed' = Parsed
      BY <2>1 DEF Parsed
    <2> QED BY <1>1, <2>1, <2>2 DEF ParserInv
  <1> QED BY <1>6, <1>7, <1>8, <1>9, <1>10, <1>11, <1>12, <1>13 DEF Parse

(* A correspondence that keeps the order keeps the ranks, and two lines of *)
(* the same rank are one.                                                  *)
LEMMA RanksAgree ==
    ASSUME NEW parsed \in Seq(Sections), NEW lines \in Seq(Lines), NEW line, Lists(line, parsed, lines)
    PROVE  /\ Cardinality(Places(parsed)) = Cardinality(NetworkLines(lines))
           /\ \A p \in Places(parsed), i \in NetworkLines(lines) :
                 RankOfPlace(parsed, p) = RankOfLine(lines, i) => i = line[p]
  <1> DEFINE P == Places(parsed)
             L == NetworkLines(lines)
  <1>1. L \subseteq Nat /\ IsFiniteSet(L)
    <2>1. L \subseteq 1 .. Len(lines) /\ Len(lines) \in Nat
      BY LenProperties DEF NetworkLines
    <2>2. IsFiniteSet(1 .. Len(lines))
      BY <2>1, FS_Interval
    <2> QED BY <2>1, <2>2, FS_Subset
  <1>2. ASSUME NEW p \in P PROVE p[1] \in Nat /\ p[2] \in Nat /\ p = <<p[1], p[2]>>
    <2>1. PICK s \in DOMAIN parsed : \E n \in DOMAIN parsed[s].networks : p = <<s, n>>
      BY PlaceInSection
    <2>2. PICK n \in DOMAIN parsed[s].networks : p = <<s, n>>
      BY <2>1
    <2>3. s \in 1 .. Len(parsed) /\ Len(parsed) \in Nat
      BY LenProperties
    <2>4. parsed[s].networks \in Seq(Networks)
      <3>1. parsed[s] \in Sections
        BY <2>3, ElementOfSeq
      <3> QED BY <3>1 DEF Sections
    <2>5. n \in 1 .. Len(parsed[s].networks) /\ Len(parsed[s].networks) \in Nat
      BY <2>4, LenProperties
    <2> QED BY <2>2, <2>3, <2>5
  <1>3. /\ line \in [P -> L] /\ \A i \in L : \E p \in P : line[p] = i
        /\ \A p, q \in P : Before(p, q) => line[p] < line[q]
    BY DEF Lists
  <1> HIDE DEF P, L
  <1>4. ASSUME NEW p \in P, NEW q \in P, p # q PROVE Before(p, q) \/ Before(q, p)
    BY <1>2, <1>4 DEF Before
  <1>5. ASSUME NEW p \in P, NEW q \in P PROVE Before(p, q) <=> line[p] < line[q]
    <2>1. line[p] \in Nat /\ line[q] \in Nat
      BY <1>1, <1>3
    <2> QED BY <1>3, <1>4, <2>1
  <1>6. ASSUME NEW p \in P, NEW q \in P, line[p] = line[q] PROVE p = q
    <2>1. line[p] \in Nat
      BY <1>1, <1>3
    <2> QED BY <1>4, <1>5, <1>6, <2>1
  <1>7. IsFiniteSet(P) /\ Cardinality(P) = Cardinality(L)
    <2>1. line \in Injection(P, L) /\ line \in Surjection(P, L)
      BY <1>3, <1>6 DEF Injection, IsInjective, Surjection
    <2> QED BY <1>1, <2>1, FS_Injection
  <1>8. ASSUME NEW p \in P
        PROVE  Cardinality({q \in P : Before(q, p)}) = Cardinality({j \in L : j < line[p]})
    <2> DEFINE S == {q \in P : Before(q, p)}
               T == {j \in L : j < line[p]}
               f == [q \in S |-> line[q]]
    <2>1. IsFiniteSet(T)
      BY <1>1, FS_Subset
    <2>2. f \in [S -> T]
      BY <1>3
    <2>3. \A a, b \in S : f[a] = f[b] => a = b
      BY <1>6
    <2>4. \A j \in T : \E q \in S : f[q] = j
      BY <1>3, <1>5
    <2> HIDE DEF S, T, f
    <2>5. f \in Injection(S, T) /\ f \in Surjection(S, T)
      BY <2>2, <2>3, <2>4 DEF Injection, IsInjective, Surjection
    <2>6. Cardinality(S) = Cardinality(T)
      BY <2>1, <2>5, FS_Injection
    <2> QED BY <2>6 DEF S, T
  <1>9. ASSUME NEW i \in L, NEW j \in L, i < j
        PROVE  Cardinality({k \in L : k < i}) # Cardinality({k \in L : k < j})
    <2> DEFINE S == {k \in L : k < i}
               T == {k \in L : k < j}
    <2>1. IsFiniteSet(T)
      BY <1>1, FS_Subset
    <2>2. S \subseteq T /\ i \in T /\ i \notin S
      <3>1. i \in Nat /\ j \in Nat
        BY <1>1, <1>9
      <3>2. ASSUME NEW k \in L, k < i PROVE k < j
        <4>1. k \in Nat
          BY <1>1
        <4> QED BY <1>9, <3>1, <3>2, <4>1
      <3>3. ~(i < i)
        BY <3>1
      <3> QED BY <1>9, <3>2, <3>3
    <2> HIDE DEF S, T
    <2>3. Cardinality(T) # Cardinality(S)
      BY <2>1, <2>2, FS_Subset
    <2> QED BY <2>3 DEF S, T
  <1>10. ASSUME NEW p \in P, NEW i \in L,
                Cardinality({q \in P : Before(q, p)}) = Cardinality({j \in L : j < i})
         PROVE  i = line[p]
    <2>1. line[p] \in L /\ line[p] \in Nat /\ i \in Nat
      BY <1>1, <1>3
    <2>2. ~(i < line[p]) /\ ~(line[p] < i)
      BY <1>8, <1>9, <1>10, <2>1
    <2> QED BY <2>1, <2>2
  <1> QED BY <1>7, <1>10 DEF P, L, RankOfPlace, RankOfLine

-----------------------------------------------------------------------------
(* The theorems.                                                           *)

(* Everything the parser has read is in its place, in every state.         *)
THEOREM ParserInvariant == ParserSpec => []ParserInv
  BY ParserInvStarts, ParserInvKeeps, PTL DEF ParserSpec

(* No section without networks, and no header value that did not convert,  *)
(* reaches write_mmdb, however long the file is and wherever it fails.     *)
THEOREM ParserTypeCorrect == ParserSpec => []ParserTypeOK
  <1>1. ParserInv => ParserTypeOK
    BY DEF ParserInv
  <1> QED BY <1>1, ParserInvariant, PTL

(* `parse` drops, repeats and reorders no network of a file, and gives     *)
(* each the header values in force at its line.                            *)
THEOREM NetworksKeepTheirHeaderCorrect == ParserSpec => []NetworksKeepTheirHeader
  <1>1. ParserInv => NetworksKeepTheirHeader
    <2> SUFFICES ASSUME ParserInv, outcome # "failed" PROVE NetworksKeepTheirHeader
      BY DEF NetworksKeepTheirHeader
    <2>1. PICK line : Lists(line, Parsed, content)
      BY DEF ParserInv
    <2>2. content \in Seq(Lines) /\ Parsed \in Seq(Sections)
      <3>1. /\ content \in Seq(Lines) /\ sections \in Seq(Sections)
            /\ Section(metadata, networks) \in Sections
        BY DEF ParserInv, ParserTypeOK, Section, Sections
      <3> QED BY <3>1, AppendProperties DEF Parsed
    <2>3. /\ Cardinality(Places(Parsed)) = Cardinality(NetworkLines(content))
          /\ \A p \in Places(Parsed), i \in NetworkLines(content) :
                RankOfPlace(Parsed, p) = RankOfLine(content, i) => i = line[p]
      BY <2>1, <2>2, RanksAgree
    <2>4. \A p \in Places(Parsed) :
             /\ Parsed[p[1]].networks[p[2]] = content[line[p]].network
             /\ Parsed[p[1]].metadata = HeaderAt(content, line[p])
      BY <2>1 DEF Lists
    <2> QED BY <2>3, <2>4 DEF NetworksKeepTheirHeader
  <1> QED BY <1>1, ParserInvariant, PTL
=============================================================================
