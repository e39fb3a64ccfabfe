------------------------ MODULE ConfigtxlatorHandlers ------------------------
(***************************************************************************)
(* The configtxlator REST handlers Decode and Encode                       *)
(* (fabric1/common/tools/configtxlator/rest/protolator_handlers.go), run   *)
(* against the header rules of Go's net/http ResponseWriter.               *)
(*                                                                         *)
(* A request is a record of the outcomes of the steps the handler takes:  *)
(* whether the message name is registered, whether the body reads, parses *)
(* and converts.  The message itself is left abstract.                     *)
(*                                                                         *)
(* The ResponseWriter (net/http, outside this repository) is modelled by   *)
(* what it does with headers: the handler header map; WriteHeader, which   *)
(* records the status once; Header(), which after WriteHeader hands out    *)
(* the map but freezes a copy of it as the header to send ("changing the   *)
(* header map after calling WriteHeader has no effect"); and the first     *)
(* write of the body, which sends the frozen header, or the map when none  *)
(* was frozen, and sniffs a Content-Type when the header sent has none.    *)
(***************************************************************************)
EXTENDS Naturals

CONSTANTS NONE

Handlers == {"decode", "encode"}

(* getMsgType, ioutil.ReadAll (Decode only), proto.Unmarshal /            *)
(* DeepUnmarshalJSON, DeepMarshalJSON / proto.Marshal                      *)
Requests == [handler : Handlers, known : BOOLEAN, read : BOOLEAN,
             parse : BOOLEAN, convert : BOOLEAN]

(* what the bytes of a body are sniffed as (http.DetectContentType): an   *)
(* error line and JSON are text; marshalled proto bytes may or may not     *)
(* look like text                                                          *)
Sniffed(b) == IF b = "proto" THEN {"application/octet-stream", "text/plain"}
              ELSE {"text/plain"}

VARIABLES
    req,    \* the request being served
    pc,     \* the handler's next step
    w,      \* the ResponseWriter's state
    wire    \* the status, Content-Type and body the client receives

vars == <<req, pc, w, wire>>

NoFrozen == [frozen |-> FALSE, ct |-> NONE]

NewWriter == [ct |-> NONE, calledHeader |-> FALSE, wrote |-> FALSE,
              status |-> 0, sent |-> NoFrozen, body |-> NONE]

-----------------------------------------------------------------------------
(* the ResponseWriter *)

WriteHeaderW(x, code) ==
    IF x.wrote THEN x
    ELSE [x EXCEPT !.wrote = TRUE, !.status = code,
                   !.sent = IF x.calledHeader /\ ~x.sent.frozen
                            THEN [frozen |-> TRUE, ct |-> x.ct] ELSE x.sent]

(* w.Header().Set("Content-Type", ct) *)
SetContentTypeW(x, ct) ==
    LET y == [x EXCEPT !.calledHeader = TRUE,
                       !.sent = IF x.wrote /\ ~x.sent.frozen
                                THEN [frozen |-> TRUE, ct |-> x.ct] ELSE x.sent]
    IN [y EXCEPT !.ct = ct]

(* w.Write(b) / fmt.Fprintln(w, err): status 200 unless one was written *)
WriteW(x, b) == [WriteHeaderW(x, 200) EXCEPT !.body = b]

(* the header sent with the body *)
HeaderSent(x) == IF x.sent.frozen THEN x.sent.ct ELSE x.ct

(* the handler returns and the response goes out *)
Respond(x) ==
    /\ \E sniff \in Sniffed(x.body) :
          wire' = [status |-> x.status, body |-> x.body,
                   ct |-> IF HeaderSent(x) # NONE THEN HeaderSent(x) ELSE sniff]
    /\ pc' = "done"

-----------------------------------------------------------------------------
(* the handlers *)

(* w.WriteHeader(code); fmt.Fprintln(w, err); return *)
Fail(code) ==
    LET x == WriteW(WriteHeaderW(w, code), "error") IN
    /\ w' = x
    /\ Respond(x)

(* getMsgType: the {msgName} of the URL must be a registered proto type   *)
GetMsgType ==
    /\ pc = "start"
    /\ IF req.known
       THEN /\ pc' = IF req.handler = "decode" THEN "read" ELSE "parse"
            /\ UNCHANGED <<w, wire>>
       ELSE Fail(404)
    /\ UNCHANGED req

(* Decode: buf, err := ioutil.ReadAll(r.Body) *)
ReadBody ==
    /\ pc = "read"
    /\ IF req.read THEN pc' = "parse" /\ UNCHANGED <<w, wire>> ELSE Fail(400)
    /\ UNCHANGED req

(* Decode: proto.Unmarshal(buf, msg); Encode: protolator.DeepUnmarshalJSON *)
Parse ==
    /\ pc = "parse"
    /\ IF req.parse THEN pc' = "convert" /\ UNCHANGED <<w, wire>> ELSE Fail(400)
    /\ UNCHANGED req

(* Decode: protolator.DeepMarshalJSON; Encode: proto.Marshal; then         *)
(* w.WriteHeader(http.StatusOK), w.Header().Set("Content-Type", ...) and   *)
(* the body                                                                 *)
Convert ==
    /\ pc = "convert"
    /\ IF req.convert
       THEN LET ct == IF req.handler = "decode" THEN "application/json"
                      ELSE "application/octet-stream"
                b  == IF req.handler = "decode" THEN "json" ELSE "proto"
                x  == WriteW(SetContentTypeW(WriteHeaderW(w, 200), ct), b)
            IN /\ w' = x
               /\ Respond(x)
       ELSE Fail(400)
    /\ UNCHANGED req

Init ==
    /\ req \in Requests
    /\ req.handler = "encode" => req.read
    /\ pc = "start"
    /\ w = NewWriter
    /\ wire = NONE

Next == GetMsgType \/ ReadBody \/ Parse \/ Convert

Spec == Init /\ [][Next]_vars

-----------------------------------------------------------------------------
(* Properties *)

(* The handlers set the Content-Type of a successful reply: JSON for       *)
(* Decode, octet-stream for Encode.  Every 200 reply reaches the client    *)
(* with the Content-Type its handler set.                                  *)
ContentTypeAsSet ==
    (pc = "done" /\ wire.status = 200) =>
       wire.ct = IF req.handler = "decode" THEN "application/json"
                 ELSE "application/octet-stream"
=============================================================================
