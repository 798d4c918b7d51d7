------------------------------- MODULE Enquiry -------------------------------
(***************************************************************************)
(* What POST /v1/enquiries accepts (domain/enquiry.ts and the handler), and*)
(* what the table accepts (006_enquiries.sql), as operators.               *)
(*                                                                         *)
(* A text is its length after trimming, twice: in UTF-16 code units, which *)
(* JavaScript counts, and in characters, which Postgres counts.            *)
(***************************************************************************)
EXTENDS Naturals

CONSTANT Absent    \* the field is not there

ASSUME EnquiryAssumption == Absent \notin [units : Nat, chars : Nat]

Texts == [units : Nat, chars : Nat]

\* ENQUIRY_LIMITS
NameLimits == 2 .. 120
PhoneLimits == 7 .. 32
MessageLimits == 10 .. 4000
SourceMax == 200

\* A body: the honeypot's text, the texts, and of the other fields what is known of them.
\* email: it has the shape of an address; date: "real", "unreal" (the 30th of February,
\* which Date.parse takes) or "no date"; eventType, metroCode: whether it is one of ours.
Inputs(texts) ==
  [website : texts, name : texts, email : BOOLEAN, phone : texts \cup {Absent},
   message : texts, source : texts \cup {Absent},
   date : {Absent, "real", "unreal", "no date"},
   eventType : {Absent, "known", "unknown"}, metroCode : {Absent, "known", "unknown"}]

IsBot(body) == body.website.units > 0

-----------------------------------------------------------------------------
\* normaliseEnquiry and the handler: an empty optional text is absent, and a code that is
\* not one of ours is dropped.

NotEmpty(text) == IF text # Absent /\ text.units = 0 THEN Absent ELSE text
Ours(code) == IF code = "known" THEN code ELSE Absent

NormaliseEnquiry(body) ==
  [body EXCEPT !.phone = NotEmpty(@), !.source = NotEmpty(@),
               !.eventType = Ours(@), !.metroCode = Ours(@)]

\* validateEnquiry
ValidateEnquiry(enquiry) ==
  /\ enquiry.name.units \in NameLimits
  /\ enquiry.email
  /\ enquiry.phone # Absent => enquiry.phone.units \in PhoneLimits
  /\ enquiry.message.units \in MessageLimits
  /\ enquiry.date \in {Absent, "real", "unreal"}
  /\ enquiry.source # Absent => enquiry.source.units <= SourceMax

Accepts(body) == ~IsBot(body) /\ ValidateEnquiry(NormaliseEnquiry(body))

-----------------------------------------------------------------------------
\* The CHECKs, the DATE column and the two foreign keys of the table.
TableTakes(enquiry) ==
  /\ enquiry.name.chars \in NameLimits
  /\ enquiry.email
  /\ enquiry.phone # Absent => enquiry.phone.chars \in PhoneLimits
  /\ enquiry.message.chars \in MessageLimits
  /\ enquiry.date \in {Absent, "real"}
  /\ enquiry.source # Absent => enquiry.source.chars <= SourceMax
  /\ enquiry.eventType \in {Absent, "known"} /\ enquiry.metroCode \in {Absent, "known"}

\* "So the two cannot disagree" (enquiry.ts:36-38) is true of texts whose characters are
\* one code unit each, and of real dates: what the service accepts, the table takes.
Plain(body) ==
  /\ body.date # "unreal"
  /\ \A field \in {"name", "phone", "message", "source"} :
       body[field] # Absent => body[field].units = body[field].chars

TheTwoAgree(body) == Plain(body) /\ Accepts(body) => TableTakes(NormaliseEnquiry(body))
=============================================================================
