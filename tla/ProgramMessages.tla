--------------------------- MODULE ProgramMessages ---------------------------
(***************************************************************************)
(* The program with its formatters: what the replies look like.  The       *)
(* parameter TextOf of Program is Formatted.                               *)
(***************************************************************************)
EXTENDS Program, MessageFormatter

CONSTANTS
  Similar    \* messages of each type of reply that texts are compared with

\* The replies and what they are compared with are messages of protobuf; replies
\* are printed by the formatters.
ASSUME RepliesAssumption ==
  /\ \A type \in DOMAIN Similar : \A m \in Similar[type] : Fits(type, m)
  /\ \A kind \in DOMAIN Lines : \A l \in Lines[kind] :
       /\ l.replyType \in DOMAIN Similar
       /\ \A i \in DOMAIN l.replies :
            /\ Fits(l.replyType, l.replies[i])
            /\ TextOf(l.replyType, l.replies[i], l) = Formatted(l.replyType, l.replies[i], l)

----------------------------------------------------------------------------
(* Properties of texts.                                                    *)

\* The text of the last reply that was printed.
LastText == printed[Len(printed)]

\* The text for humans of a reply tells it from all others that differ in what Shown
\* says, and does not depend on anything else, as long as no string in them holds a
\* quote: quotes are not escaped, so what follows one can look like anything.
TextTells ==
  /\ phase = "rpc" /\ received > 0 /\ ~line.json /\ line.custom = NoFormat
  /\ Quoteless(line.replyType, line.replies[received])
  =>
    \A m \in Similar[line.replyType] :
      Quoteless(line.replyType, m) =>
        (Formatted(line.replyType, m, line) = LastText <=>
           Shown(line.replyType, m, line.simple) = Shown(line.replyType, line.replies[received], line.simple))
=============================================================================
