------------------------------ MODULE Blocklist ------------------------------
(***************************************************************************)
(* From list files to verdicts: the files of the repository are parsed     *)
(* (IpsetParser), their networks merged into the records of the database   *)
(* (src/firehol/builder.rs), and requests answered from those records      *)
(* (src/spoa.rs).                                                          *)
(*                                                                         *)
(* Files are parsed one after the other: `parse` is pure and the parallel  *)
(* iterator collects in the order of the files.                            *)
(***************************************************************************)
EXTENDS IpsetParser, SequencesExt

CONSTANTS
    Tree,           \* blobs of the commit, in order: base name, ipset file?, *_country?
    IgnoreCountry,  \* FIREHOL_IGNORE_COUNTRY
    Addresses,      \* IPv4 addresses
    Covers,         \* per network: the addresses in it
    drop_by_category,   \* DROP_BY_CATEGORY: a sequence of names, or NotGiven
    drop_by_file_names, \* DROP_BY_FILE_NAMES
    NotGiven,       \* the value of an option that is not set at all
    NotFound,       \* the lookup result of an address with no record
    Unset,          \* ip_bad of a request that set no variable
    Unknown,        \* "unknown": a label the record has no element for
    MaxRequests     \* bound: requests answered

FileNames == {Tree[i].file_name : i \in DOMAIN Tree}
Text == Values \cup FileNames

Fields == HeaderKeys \cup {"file_name"}

ASSUME BlocklistAssumption ==
    /\ Tree \in Seq([file_name : FileNames, ipset : BOOLEAN, country : BOOLEAN])
    /\ IgnoreCountry \in BOOLEAN
    /\ Covers \in [Networks -> SUBSET Addresses]
    /\ NotFound \notin Addresses /\ NotFound \notin [Fields -> Seq(Text)]
    /\ Unset \notin BOOLEAN
    /\ MaxRequests \in Nat

VARIABLES
    stage,          \* "parsing", "serving" or "failed"
    position,       \* the blob of the tree the loop is at
    ipsets,         \* the files parsed so far, without the skipped ones
    contents,       \* the lines of each of them
    inserted,       \* places of the networks that write_mmdb has inserted
    database,       \* per address: its record
    request,        \* the last request: the address it asked about
    reply,          \* and its answer: ip_bad and the labels of the block
    allowed,        \* IP_ALLOWED_REQUESTS
    blocked,        \* IP_BLOCKED_REQUESTS: a bag of labels
    answered        \* number of requests whose variable was set

fileVars == <<ipsets, contents>>
writerVars == <<inserted, database>>
serveVars == <<request, reply, allowed, blocked, answered>>
vars == <<parseVars, stage, position, fileVars, writerVars, serveVars>>

\* value_delimiter: an option that is set, but to nothing, has one element,
\* the empty string.
Elements(option) ==
    IF option = NotGiven THEN {} ELSE IF option = <<>> THEN {Empty} ELSE ToSet(option)

\* IpFilter::new
drop_categories == Elements(drop_by_category)
drop_file_names == Elements(drop_by_file_names)

NoLabels == <<>>
NoReply == [ip_bad |-> Unset, labels |-> NoLabels]

Init ==
    /\ StartOfFile
    /\ stage = "parsing" /\ position = 1
    /\ ipsets = <<>> /\ contents = <<>>
    /\ inserted = {}
    /\ database = [address \in Addresses |-> NotFound]
    /\ request = NotFound /\ reply = NoReply
    /\ allowed = 0 /\ blocked = EmptyBag /\ answered = 0

-----------------------------------------------------------------------------
(* collect_ipset_files and parse_files, in one walk over the tree.         *)

Collected(blob) == blob.ipset /\ ~(IgnoreCountry /\ blob.country)

AtBlob == stage = "parsing" /\ position <= Len(Tree)
Parsing == AtBlob /\ Collected(Tree[position])

\* No list, or a list of a *_country directory.
PassOver ==
    /\ AtBlob /\ ~Collected(Tree[position])
    /\ position' = position + 1
    /\ UNCHANGED <<parseVars, stage, fileVars, writerVars, serveVars>>

ParseLine ==
    /\ Parsing
    /\ Parse
    /\ UNCHANGED <<stage, position, fileVars, writerVars, serveVars>>

NextFile ==
    /\ position' = position + 1
    /\ content' = <<>> /\ metadata' = Default /\ networks' = <<>> /\ sections' = <<>>
    /\ outcome' = "reading"
    /\ UNCHANGED <<stage, writerVars, serveVars>>

KeepFile ==
    /\ Parsing /\ outcome = "ok"
    /\ ipsets' = Append(ipsets, [file_name |-> Tree[position].file_name, sections |-> sections])
    /\ contents' = Append(contents, content)
    /\ NextFile

\* Unreadable (nothing was parsed yet), or malformed.
SkipFile ==
    /\ Parsing
    /\ outcome = "failed" \/ (outcome = "reading" /\ content = <<>>)
    /\ UNCHANGED fileVars
    /\ NextFile

-----------------------------------------------------------------------------
(* write_mmdb.                                                             *)

\* The places of all networks: a file, and a place in its sections. The
\* three nested loops visit them in this order.
FilePlaces == UNION {{f} \X Places(ipsets[f].sections) : f \in DOMAIN ipsets}
Precedes(p, q) == p[1] < q[1] \/ (p[1] = q[1] /\ Before(p[2], q[2]))
Remaining == FilePlaces \ inserted

SectionAt(place) == ipsets[place[1]].sections[place[2][1]]
NetworkAt(place) == SectionAt(place).networks[place[2][2]]

\* One element per field: index i of every array describes the same list.
record(file_name, header) ==
    [key \in Fields |-> IF key = "file_name" THEN <<file_name>> ELSE <<header[key]>>]

MergeDeep_Replaces(old, new) == new
MergeDeep_NoDuplicates(old, new) ==
    [key \in Fields |-> old[key] \o SelectSeq(new[key], LAMBDA v : v \notin ToSet(old[key]))]
\* Value::merge_deep: the arrays of each field are concatenated.
MergeDeep(old, new) == [key \in Fields |-> old[key] \o new[key]]

InsertWith(network, value) ==
    [address \in Addresses |->
        IF address \notin Covers[network] THEN database[address]
        ELSE IF database[address] = NotFound THEN value
        ELSE MergeDeep(database[address], value)]

AllParsed == stage = "parsing" /\ position > Len(Tree)

NoEntries ==
    /\ AllParsed /\ FilePlaces = {}
    /\ stage' = "failed"
    /\ UNCHANGED <<parseVars, position, fileVars, writerVars, serveVars>>

Insert(place) ==
    /\ AllParsed /\ place \in Remaining
    /\ \A later \in Remaining \ {place} : Precedes(place, later)
    /\ database' = InsertWith(NetworkAt(place), record(ipsets[place[1]].file_name, SectionAt(place).metadata))
    /\ inserted' = inserted \cup {place}
    /\ UNCHANGED <<parseVars, stage, position, fileVars, serveVars>>

\* The writer is serialised, and the file loaded.
Build ==
    /\ AllParsed /\ FilePlaces # {} /\ Remaining = {}
    /\ stage' = "serving"
    /\ UNCHANGED <<parseVars, position, fileVars, writerVars, serveVars>>

-----------------------------------------------------------------------------
(* handle, should_drop, find_match and record_block.                       *)

First(values, dropped) == SelectInSeq(values, LAMBDA v : v \in dropped)

FindMatch_CategoryAt1(entry) ==
    IF First(entry["Category"], drop_categories) # 0
    THEN 1
    ELSE First(entry["file_name"], drop_file_names)
\* A category match takes precedence over a file-name match; 0 is None.
FindMatch(entry) ==
    IF First(entry["Category"], drop_categories) # 0
    THEN First(entry["Category"], drop_categories)
    ELSE First(entry["file_name"], drop_file_names)

\* lookup: no record is no match.
Hit(address) == IF database[address] = NotFound THEN 0 ELSE FindMatch(database[address])

field(values, index) == IF index \in DOMAIN values THEN values[index] ELSE Unknown

Labels(entry, index) ==
    <<field(entry["file_name"], index), field(entry["Maintainer"], index), field(entry["Category"], index)>>

Answer(address, ip_bad, labels) ==
    /\ stage = "serving" /\ answered < MaxRequests
    /\ request' = address
    /\ reply' = [ip_bad |-> ip_bad, labels |-> labels]
    /\ answered' = answered + 1
    /\ UNCHANGED <<parseVars, stage, position, fileVars, writerVars>>

AllowAddress_Uncounted(address) ==
    /\ Answer(address, FALSE, NoLabels)
    /\ Hit(address) = 0
    /\ allowed' = IF database[address] = NotFound THEN allowed + 1 ELSE allowed
    /\ UNCHANGED blocked

AllowAddress(address) ==
    /\ Answer(address, FALSE, NoLabels)
    /\ Hit(address) = 0
    /\ allowed' = allowed + 1
    /\ UNCHANGED blocked

BlockAddress_CountsFirst(address) ==
    /\ Hit(address) # 0
    /\ Answer(address, TRUE, Labels(database[address], Hit(address)))
    /\ blocked' = blocked (+) SetToBag({Labels(database[address], 1)})
    /\ UNCHANGED allowed

BlockAddress(address) ==
    LET labels == Labels(database[address], Hit(address))
    IN  /\ Hit(address) # 0
        /\ Answer(address, TRUE, labels)
        /\ blocked' = blocked (+) SetToBag({labels})
        /\ UNCHANGED allowed

\* The database is IPv4 only: the lookup answers IPv4Only.
AllowIPv6 ==
    /\ Answer(NotFound, FALSE, NoLabels)
    /\ allowed' = allowed + 1
    /\ UNCHANGED blocked

\* Another message, or an `ip` that is no address: no variable is set.
NoVariable ==
    /\ stage = "serving"
    /\ request' = NotFound /\ reply' = NoReply
    /\ UNCHANGED <<parseVars, stage, position, fileVars, writerVars, allowed, blocked, answered>>

Handle ==
    \/ \E address \in Addresses : AllowAddress(address) \/ BlockAddress(address)
    \/ AllowIPv6 \/ NoVariable

Next ==
    \/ PassOver \/ ParseLine \/ KeepFile \/ SkipFile
    \/ NoEntries \/ (\E place \in Remaining : Insert(place)) \/ Build
    \/ Handle

Spec == Init /\ [][Next]_vars

-----------------------------------------------------------------------------
(* Properties.                                                             *)

(* The variables keep their types, the arrays of a record are aligned (all *)
(* have one element per list the address is in), and no label of a block   *)
(* is the "unknown" that stands in for a missing element.                  *)
BlocklistTypeOK ==
    /\ stage \in {"parsing", "serving", "failed"}
    /\ position \in 1 .. Len(Tree) + 1
    /\ Len(ipsets) = Len(contents) /\ Len(ipsets) < position
    /\ inserted \subseteq FilePlaces
    /\ \A address \in Addresses : database[address] # NotFound =>
          \A f, g \in Fields : Len(database[address][f]) = Len(database[address][g])
    /\ request \in Addresses \cup {NotFound}
    /\ reply.ip_bad \in BOOLEAN \cup {Unset} /\ reply.labels \in Seq(Text)
    /\ allowed \in Nat /\ IsABag(blocked) /\ answered \in 0 .. MaxRequests

\* The lines of the files that list an address, each a file and its line:
\* Before is their order.
Listings(address) ==
    UNION {{f} \X {i \in NetworkLines(contents[f]) : address \in Covers[contents[f][i].network]} :
           f \in DOMAIN contents}

FileOf(listing) == ipsets[listing[1]].file_name
HeaderOf(listing) == HeaderAt(contents[listing[1]], listing[2])

ByCategory(listing) == HeaderOf(listing)["Category"] \in drop_categories
ByFileName(listing) == FileOf(listing) \in drop_file_names

(* A request is answered ip_bad = true exactly when a line of a list file  *)
(* that was read covers its address, and the header over that line has a   *)
(* dropped category or the file is a dropped one, whatever other lists     *)
(* overlap with it.                                                        *)
DropIffListed ==
    reply.ip_bad # Unset =>
        (reply.ip_bad <=> \E listing \in Listings(request) : ByCategory(listing) \/ ByFileName(listing))

\* The lines that justify a block: those of a dropped category, or, if there
\* is none, those of a dropped file.
Guilty(address) ==
    LET category == {listing \in Listings(address) : ByCategory(listing)}
    IN  IF category # {} THEN category ELSE {listing \in Listings(address) : ByFileName(listing)}

(* The labels of a block are those of one list that justifies it: of the   *)
(* first line, in the order of the files, that does.                       *)
BlamesOneList ==
    reply.ip_bad = TRUE =>
        \E first \in Guilty(request) :
            /\ \A other \in Guilty(request) \ {first} : Before(first, other)
            /\ reply.labels = <<FileOf(first), HeaderOf(first)["Maintainer"], HeaderOf(first)["Category"]>>

\* The blocks counted, one by one.
Blocks == UNION {{labels} \X (1 .. blocked[labels]) : labels \in DOMAIN blocked}

(* Every request whose variable was set is counted once, as allowed or as  *)
(* blocked, whether its address has no record or one that is not dropped.  *)
EveryAnswerCounted == allowed + Cardinality(Blocks) = answered

-----------------------------------------------------------------------------
(* The promise.                                                            *)

\* What Verdicts sees of a file: its networks, and the header over each.
ListOf(f) ==
    [file_name |-> ipsets[f].file_name,
     lines |-> [i \in NetworkLines(contents[f]) |->
                  [covers |-> Covers[contents[f][i].network],
                   category |-> HeaderAt(contents[f], i)["Category"],
                   maintainer |-> HeaderAt(contents[f], i)["Maintainer"]]]]

ListsRead == [f \in 1 .. Len(contents) |-> ListOf(f)]

Promise == INSTANCE Verdicts WITH
    Clients <- Addresses \cup {NotFound}, NoClient <- NotFound, lists <- ListsRead,
    phase <- IF stage = "serving" THEN "open" ELSE "closed"

(* The agent implements Verdicts: parsed section by section, merged into   *)
(* parallel arrays and found by index, the lists answer each request, and  *)
(* fill the counters, as their lines one by one would.                     *)
KeepsVerdicts == Promise!Spec
=============================================================================
