----------------------------- MODULE MCBlocklist -----------------------------
(* Three lists that may overlap, beside a file that is no list and a       *)
(* country list: a wide and a narrow network, one category dropped, and    *)
(* the file in the middle dropped.                                         *)
EXTENDS Blocklist

CONSTANTS
    abuse, spam,            \* categories
    team,                   \* a maintainer
    wide, narrow,           \* networks: narrow lies inside wide
    inside, beside          \* addresses in both, and in wide only

MCRaw ==
    [key \in HeaderKeys |->
        CASE key = "Category" -> {abuse, spam}
          [] key = "Maintainer" -> {team}
          [] OTHER -> {}]
MCValue == [key \in HeaderKeys |-> [raw \in MCRaw[key] |-> raw]]

Blob(name, ipset, country) == [file_name |-> name, ipset |-> ipset, country |-> country]
MCTree ==
    <<Blob("README.md", FALSE, FALSE), Blob("a.ipset", TRUE, FALSE),
      Blob("xx.netset", TRUE, TRUE), Blob("b.netset", TRUE, FALSE),
      Blob("c.ipset", TRUE, FALSE)>>
MCCovers == (wide :> {inside, beside}) @@ (narrow :> {inside})
MCDropByCategory == <<abuse>>
MCDropByFileNames == <<"b.netset">>
=============================================================================
