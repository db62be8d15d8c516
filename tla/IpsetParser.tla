----------------------------- MODULE IpsetParser -----------------------------
(***************************************************************************)
(* `parse` of src/firehol/ipset.rs: one list file, line by line, into      *)
(* sections of networks that share the same header values.                 *)
(*                                                                         *)
(* A line is known by what `parse` tells apart: a recognised header with   *)
(* its raw value, a network, a line without effect (blank, or a comment    *)
(* that is no known header), or a malformed entry.                         *)
(***************************************************************************)
EXTENDS Naturals, Sequences, FiniteSets, FiniteSetsExt

CONSTANTS
    Raw,            \* per header key: the raw values its lines may carry
    Value,          \* per header key: HeaderKey::value, from raw to stored values
    Invalid,        \* what it gives for a date it cannot parse
    Empty,          \* the empty string
    Networks,       \* networks of the entry lines
    MaxLines        \* bound: lines in a file

HeaderKeys ==
    {"Category", "Maintainer URL", "Maintainer", "List source URL", "Source File Date"}

ASSUME HeaderAssumption ==
    /\ Invalid # Empty
    /\ \A key \in HeaderKeys : DOMAIN Value[key] = Raw[key]
    /\ \A key \in HeaderKeys \ {"Source File Date"} : \A raw \in Raw[key] : Value[key][raw] # Invalid

VARIABLES
    content,        \* the lines read so far
    metadata,       \* header values in force
    networks,       \* networks read since they last changed
    sections,       \* frozen sections
    outcome         \* "reading", then "ok" or "failed"

parseVars == <<content, metadata, networks, sections, outcome>>

Header(key, raw) == [kind |-> "header", key |-> key, raw |-> raw]
Entry(network) == [kind |-> "network", network |-> network]
Ignored == [kind |-> "ignored"]
Malformed == [kind |-> "malformed"]

Section(header, nets) == [metadata |-> header, networks |-> nets]

\* Metadata::default
Default == [key \in HeaderKeys |-> Empty]

StartOfFile ==
    /\ content = <<>> /\ metadata = Default /\ networks = <<>> /\ sections = <<>>
    /\ outcome = "reading"

-----------------------------------------------------------------------------
Reads(line) ==
    /\ outcome = "reading" /\ Len(content) < MaxLines
    /\ content' = Append(content, line)

IgnoredLine ==
    /\ Reads(Ignored)
    /\ UNCHANGED <<metadata, networks, sections, outcome>>

\* `# Source File Date: yesterday`
InvalidHeader(key, raw) ==
    /\ Reads(Header(key, raw))
    /\ Value[key][raw] = Invalid
    /\ outcome' = "failed"
    /\ UNCHANGED <<metadata, networks, sections>>

\* The converted values are compared: another spelling of the same date is
\* no change.
UnchangedHeader(key, raw) ==
    /\ Reads(Header(key, raw))
    /\ Value[key][raw] = metadata[key]
    /\ UNCHANGED <<metadata, networks, sections, outcome>>

Freeze_Never == UNCHANGED <<networks, sections>>
\* The header changes after networks were read: their section is frozen.
Freeze ==
    \/ networks = <<>> /\ UNCHANGED <<networks, sections>>
    \/ /\ networks # <<>>
       /\ sections' = Append(sections, Section(metadata, networks))
       /\ networks' = <<>>

ChangedHeader(key, raw) ==
    /\ Reads(Header(key, raw))
    /\ Value[key][raw] \notin {Invalid, metadata[key]}
    /\ Freeze
    /\ metadata' = [metadata EXCEPT ![key] = Value[key][raw]]
    /\ UNCHANGED outcome

NetworkLine(network) ==
    /\ Reads(Entry(network))
    /\ networks' = Append(networks, network)
    /\ UNCHANGED <<metadata, sections, outcome>>

MalformedLine ==
    /\ Reads(Malformed)
    /\ outcome' = "failed"
    /\ UNCHANGED <<metadata, networks, sections>>

EndOfFile_NoFreeze ==
    /\ outcome = "reading"
    /\ outcome' = "ok"
    /\ sections' = IF sections = <<>> THEN <<Section(metadata, networks)>> ELSE sections
    /\ networks' = <<>>
    /\ UNCHANGED <<content, metadata>>

EndOfFile ==
    /\ outcome = "reading"
    /\ outcome' = "ok"
    /\ Freeze
    /\ UNCHANGED <<content, metadata>>

Parse ==
    \/ \E key \in HeaderKeys : \E raw \in Raw[key] :
          InvalidHeader(key, raw) \/ UnchangedHeader(key, raw) \/ ChangedHeader(key, raw)
    \/ \E network \in Networks : NetworkLine(network)
    \/ IgnoredLine \/ MalformedLine \/ EndOfFile

ParserSpec == StartOfFile /\ [][Parse]_parseVars

-----------------------------------------------------------------------------
(* Properties.                                                             *)

Values == {Empty} \cup UNION {{Value[key][raw] : raw \in Raw[key]} : key \in HeaderKeys}
Metadata == [HeaderKeys -> Values \ {Invalid}]

Lines ==
    {Ignored, Malformed} \cup {Entry(network) : network \in Networks}
        \cup (UNION {{Header(key, raw) : raw \in Raw[key]} : key \in HeaderKeys})

(* The variables keep their types, and no section is empty (write_mmdb     *)
(* counts on network_count to know whether there is anything to write).    *)
ParserTypeOK ==
    /\ content \in Seq(Lines)
    /\ metadata \in Metadata
    /\ networks \in Seq(Networks)
    /\ sections \in Seq([metadata : Metadata, networks : Seq(Networks)])
    /\ \A i \in DOMAIN sections : sections[i].networks # <<>>
    /\ outcome \in {"reading", "ok", "failed"}

\* The header that line i of a file stands under: per key, the value of the
\* last header line before it.
HeaderAt(lines, i) ==
    [key \in HeaderKeys |->
        LET earlier == {j \in 1 .. i - 1 : lines[j].kind = "header" /\ lines[j].key = key}
        IN  IF earlier = {} THEN Empty ELSE Value[key][lines[Max(earlier)].raw]]

\* The lines of a file that are networks, and the places of networks in
\* sections: section and index in it, in the order of the loops over them.
NetworkLines(lines) == {i \in DOMAIN lines : lines[i].kind = "network"}
Places(parsed) == UNION {{s} \X DOMAIN parsed[s].networks : s \in DOMAIN parsed}
Before(p, q) == p[1] < q[1] \/ (p[1] = q[1] /\ p[2] < q[2])

RankOfLine(lines, i) == Cardinality({j \in NetworkLines(lines) : j < i})
RankOfPlace(parsed, p) == Cardinality({q \in Places(parsed) : Before(q, p)})

Parsed == Append(sections, Section(metadata, networks))

(* A header line applies to the networks that follow it and to no other:   *)
(* every network of the file is kept once, in the order of the file, under *)
(* the header values in force at its line, however often they change.      *)
NetworksKeepTheirHeader ==
    outcome # "failed" =>
        /\ Cardinality(Places(Parsed)) = Cardinality(NetworkLines(content))
        /\ \A p \in Places(Parsed), i \in NetworkLines(content) :
              RankOfPlace(Parsed, p) = RankOfLine(content, i) =>
                 /\ Parsed[p[1]].networks[p[2]] = content[i].network
                 /\ Parsed[p[1]].metadata = HeaderAt(content, i)
=============================================================================
