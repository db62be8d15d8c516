---------------------------- MODULE MCIpsetParser ----------------------------
(* Header lines for the parser: two categories, two spellings of one date, *)
(* a date that does not parse, and an explicitly empty source URL.         *)
EXTENDS IpsetParser

CONSTANTS
    abuse, spam,            \* categories
    date, padded, never,    \* raw dates: the same one twice, and no date
    rfc3339                 \* what the first two are converted to

MCRaw ==
    [key \in HeaderKeys |->
        CASE key = "Category" -> {abuse, spam}
          [] key = "Source File Date" -> {date, padded, never}
          [] key = "List source URL" -> {Empty}
          [] OTHER -> {}]

MCValue ==
    [key \in HeaderKeys |->
        [raw \in MCRaw[key] |->
            IF key # "Source File Date" THEN raw
            ELSE IF raw = never THEN Invalid ELSE rfc3339]]
=============================================================================
