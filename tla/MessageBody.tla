---------------------------- MODULE MessageBody ----------------------------
(***************************************************************************)
(* The body of a SIP message: its parts, what routing does with them and   *)
(* how PrepareMessageBytes writes them.  A text is a sequence of pieces    *)
(* that are not taken apart further:  a start line with its headers and    *)
(* the blank line ("head"), the headers of a body part ("phead"), the      *)
(* boundary before a part ("mark"), the closing boundary with and without  *)
(* its line end ("close", "closeEOF") and the content of a part ("text").  *)
(* Boundaries carry the number of their message, as each has its own.      *)
(***************************************************************************)
EXTENDS Naturals, FiniteSets, SequencesExt

BodyType == {"sdp", "pidf", "indata"}

\* Content-Type: of a type in DicBodyContentType, of another one, or absent
ContentType == BodyType \cup {"other", "multipart", "none"}

GetBodyType(ct) ==
  CASE ct \in BodyType -> ct
    [] ct = "none"     -> "None"
    [] OTHER           -> "Unknown"

Piece(t, ct) == [t |-> t, ct |-> ct, n |-> 0, m |-> 0]
Boundary(t, m) == [t |-> t, ct |-> "none", n |-> 0, m |-> m]
HeadPiece(ct, n, m) == [t |-> "head", ct |-> ct, n |-> n, m |-> m]

\* PartsContents: a function from body types to parts, each with the
\* Content-Type among its own headers and its bytes
NoParts == <<>>
Part(hdr, bytes) == [hdr |-> hdr, bytes |-> bytes]

-----------------------------------------------------------------------------
\* mutant: the part is still said to have the headers it had in the message
Bug_AddRequestedBodyParts(hct, parts, flags) ==
  [f \in flags |-> Part(f, <<f>>)] @@ parts

(***************************************************************************)
(* P-Add-BodyPart.  A lone part is given the Content-* headers of the      *)
(* message, where those of a body that is not multipart are.               *)
(***************************************************************************)
AddRequestedBodyParts(hct, parts, flags) ==
  LET own == IF Cardinality(DOMAIN parts) = 1
             THEN [k \in DOMAIN parts |-> Part(hct, parts[k].bytes)]
             ELSE parts IN
  IF flags = {} THEN parts ELSE [f \in flags |-> Part(f, <<f>>)] @@ own

KeepOnlyBodyPart(parts, bt) ==
  IF DOMAIN parts = {bt} THEN parts
  ELSE [k \in DOMAIN parts \cap {bt} |-> Part("none", parts[k].bytes)]

-----------------------------------------------------------------------------
\* every part after its boundary, in the order in which the map yields them
MultipartPieces(m, order, parts) ==
  FlattenSeq([i \in DOMAIN order |->
    <<Boundary("mark", m), Piece("phead", parts[order[i]].hdr)>>
      \o [j \in DOMAIN parts[order[i]].bytes |-> Piece("text", parts[order[i]].bytes[j])]])
  \o <<Boundary("close", m)>>

\* Content-Type and Content-Length are set from the body that is written.
PrepareMessageBytes(m, order, parts) ==
  LET body == CASE order = <<>>     -> <<>>
                [] Len(order) = 1   -> [j \in DOMAIN parts[order[1]].bytes |->
                                          Piece("text", parts[order[1]].bytes[j])]
                [] OTHER            -> MultipartPieces(m, order, parts)
      type == CASE order = <<>>     -> "none"
                [] Len(order) = 1   -> order[1]
                [] OTHER            -> "multipart" IN
  <<HeadPiece(type, Len(body), m)>> \o body
=============================================================================
