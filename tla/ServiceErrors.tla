----------------------------- MODULE ServiceErrors -----------------------------
(***************************************************************************)
(* How the services classify an error they catch (services/base/           *)
(* base.service.ts).  An error is named for what the handlers look at: an  *)
(* HttpException for its status, a Mongoose error for its name, a driver's *)
(* duplicate key for its code 11000; "error" is every other.               *)
(***************************************************************************)

\* The HttpExceptions, and "failed": the 503 of an error nobody classified (the 500 when
\* no service caught it).
HttpErrors == {"badRequest", "unauthorized", "forbidden", "notFound", "conflict", "failed"}

Errors == HttpErrors \cup {"duplicateKey", "CastError", "ValidationError", "error"}

RethrowOrWrap(e) == IF e \in HttpErrors THEN e ELSE "failed"

HandleDuplicateKeyError(e) == IF e = "duplicateKey" THEN "conflict" ELSE RethrowOrWrap(e)

HandleMongoErrors(e) ==
  CASE e = "CastError" -> "notFound"
    [] e = "ValidationError" -> "badRequest"
    [] OTHER -> RethrowOrWrap(e)

\* handleMongoErrors(error, false), which returns from what it does not know, and then
\* handleDuplicateKeyError(error).
HandleBoth(e) ==
  IF e \in {"CastError", "ValidationError"} THEN HandleMongoErrors(e)
  ELSE HandleDuplicateKeyError(e)

=============================================================================
