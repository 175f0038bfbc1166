----------------------------- MODULE DaemonClient -----------------------------
(***************************************************************************)
(* Hypepool.Common/Daemon/DaemonClient.cs: what a caller of                *)
(* ExecuteCommandAsync gets for each way one HTTP exchange with the coin   *)
(* daemon can end.  The class keeps no state its callers can observe       *)
(* besides whether Initialize() has created the HttpClient; the request    *)
(* counter only labels requests.                                           *)
(***************************************************************************)
EXTENDS Integers

CONSTANT None          \* C#'s null

(***************************************************************************)
(* How an exchange ends on the wire.  "error" carries a JSON-RPC error     *)
(* code, "result" a result; "empty" is a body that deserializes to null,   *)
(* "junk" one that is not JSON, "misshapen" JSON whose result does not     *)
(* convert to the type the caller asked for; "timeout" is HttpClient's.    *)
(***************************************************************************)
Exchange(kind, code, result) == [kind |-> kind, code |-> code, result |-> result]

LostExchanges ==
  {Exchange(k, None, None) : k \in {"unreachable", "httpStatus", "junk",
                                    "timeout", "empty", "misshapen"}}

Refusals(codes) == {Exchange("error", c, None) : c \in codes}

Results(values) == {Exchange("result", None, v) : v \in values}

\* DaemonResponse<TResponse>; thrown: the await of ExecuteCommandAsync throws.
DaemonResponse(error, response) ==
  [thrown |-> FALSE, error |-> error, response |-> response]

Thrown == [thrown |-> TRUE, error |-> None, response |-> None]

-------------------------------------------------------------------------------

\* How the task of MakeRequestAsync ends.  Without Initialize() there is no
\* _httpClient and the task is faulted by a NullReferenceException.
MakeRequestAsync(initialized, exchange) ==
  IF ~initialized \/ exchange.kind \in {"unreachable", "httpStatus", "junk"}
  THEN "faulted"
  ELSE IF exchange.kind = "timeout" THEN "canceled" ELSE "completed"

\* Faults and cancellations become the error codes -999 and -998; a result
\* that does not convert throws out of the mapping.
MapDaemonResponse(task, exchange) ==
  CASE task = "faulted"  -> DaemonResponse(-999, None)
    [] task = "canceled" -> DaemonResponse(-998, None)
    [] OTHER -> IF exchange.kind = "misshapen" THEN Thrown
                ELSE DaemonResponse(exchange.code, exchange.result)

ExecuteCommandAsync(initialized, exchange) ==
  MapDaemonResponse(MakeRequestAsync(initialized, exchange), exchange)

===============================================================================
