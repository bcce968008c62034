--------------------------- MODULE MCNotifications ---------------------------
(***************************************************************************)
(* Small instances of Notifications for TLC.                               *)
(***************************************************************************)
EXTENDS Notifications

CONSTANTS u1, u2, generic, labs

MCUuid == {u1, u2}
MCWord == {generic, labs}

\* No publication, one in the UUID format, and one word: README.md:155-158.
MCKnownPublications == {<<>>, << <<u2, "-">> >>, << <<generic, "word">> >>}

\* And one whose identifier has a separator in it.
MCAnyPublication ==
    MCKnownPublications \cup
        {<< <<generic, "word">>, <<Sep, "-">>, <<labs, "word">> >>}

Notified(publication) ==
    [decodes |-> TRUE, listed |-> TRUE,
     objects |-> << S3Object(publication, <<u1, "-">>) >>]
Undecodable == [decodes |-> FALSE, listed |-> FALSE, objects |-> <<>>]
NoRecords   == [decodes |-> TRUE, listed |-> FALSE, objects |-> <<>>]
NoUuid      == [decodes |-> TRUE, listed |-> TRUE,
                objects |-> << [bucket |-> "normalised",
                                key |-> << <<generic, "word">> >>] >>]
EmptyList   == [decodes |-> TRUE, listed |-> TRUE, objects |-> <<>>]

\* A message per kind of publication, one the loop skips, and one it panics at.
MCMsg == 1..5
MCContent == <<Notified(<<>>), Notified(<< <<u2, "-">> >>),
               Notified(<< <<generic, "word">> >>), NoUuid, EmptyList>>

\* A message with an empty list of records among others.
MCPanicMsg == 1..4
MCPanicContent == <<Notified(<<>>), Undecodable, NoRecords, EmptyList>>
===============================================================================
