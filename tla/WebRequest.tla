----------------------------- MODULE WebRequest -----------------------------
(***************************************************************************)
(* What the web server makes of one request (upnp/webserver.c, upnp/uri.c),*)
(* and where a device's description is served (upnp/urlconfig.c,           *)
(* upnp/upnpapi.c), as functions of their inputs.                          *)
(*                                                                         *)
(* A request is a record                                                   *)
(*   method, rooted (its path begins with /), path (a sequence of names),  *)
(*   te (it has a TE header), clen (its CONTENT-LENGTH or NULL), chunked,  *)
(*   range (NULL, or the unit and the ranges of its RANGE header)          *)
(* where a range is [first, last] with -1 for a number that is left out.   *)
(* A head is what the client sees of the headers of an answer.             *)
(***************************************************************************)
EXTENDS HttpFiles

HTTP_BAD_REQUEST == 400
HTTP_UNAUTHORIZED == 401
HTTP_FORBIDDEN == 403
HTTP_NOT_FOUND == 404
HTTP_REQUEST_RANGE_NOT_SATISFIABLE == 416
HTTP_INTERNAL_SERVER_ERROR == 500
HTTP_PARTIAL_CONTENT == 206
OK == 200

-----------------------------------------------------------------------------
(* Paths *)

\* The path without its dots, or NULL when it leaves the root.
remove_dots(path) ==
  LET step(p, name) ==
        IF p = NULL \/ (name = ".." /\ p = <<>>) THEN NULL
        ELSE IF name = "." THEN p
        ELSE IF name = ".." THEN Front(p)
        ELSE Append(p, name)
  IN  FoldLeft(step, <<>>, path)

isFileInVirtualDir(dirs, path) ==
  \E i \in DOMAIN dirs : IsStrictPrefix(dirs[i], path)

\* stat and fopen of a name under the root directory.
get_file_info(disk, path) ==
  IF path \notin DOMAIN disk THEN NULL
  ELSE [file_length |-> disk[path].length, is_directory |-> disk[path].directory,
        is_readable |-> disk[path].readable, content_type |-> "application/octet-stream"]

-----------------------------------------------------------------------------
(* Ranges *)

\* What sscanf makes of a range whose dash is a blank: the numbers that are there, in their order.
Scanned(range) == IF range.first = -1 THEN <<range.last, -1>> ELSE <<range.first, range.last>>

\* A bug: the number of a suffix is taken for the first byte.
GetNextRange_NoSuffix(range) == [first |-> Scanned(range)[1], last |-> Scanned(range)[2]]

\* A range without a digit before its dash is a suffix, whose numbers are swapped.
GetNextRange(range) ==
  LET numbers == Scanned(range)
  IN  IF range.first = -1 THEN [first |-> numbers[2], last |-> numbers[1]]
                          ELSE [first |-> numbers[1], last |-> numbers[2]]

Instruction(offset, size) == [code |-> OK, active |-> TRUE, offset |-> offset, size |-> size]

CreateHTTPRangeResponseHeader(spec, length) ==
  LET r == GetNextRange(Head(spec.ranges))
      none(code) == [code |-> code, active |-> code # HTTP_BAD_REQUEST, offset |-> 0, size |-> length]
  IN  IF spec.unit # "bytes" THEN none(HTTP_BAD_REQUEST)
      ELSE IF length < r.first THEN none(HTTP_REQUEST_RANGE_NOT_SATISFIABLE)
      ELSE IF r.first >= 0 /\ r.last >= r.first
        THEN Instruction(r.first, Min({r.last, length - 1}) - r.first + 1)
      ELSE IF r.first >= 0 /\ r.last = -1 /\ r.first < length THEN Instruction(r.first, length - r.first)
      ELSE IF r.first = -1 /\ r.last > 0
        THEN Instruction(length - Min({r.last, length}), Min({r.last, length}))
      ELSE none(HTTP_REQUEST_RANGE_NOT_SATISFIABLE)

CheckOtherHTTPHeaders(req, length) ==
  LET r == IF req.range # NULL THEN CreateHTTPRangeResponseHeader(req.range, length)
           ELSE [code |-> OK, active |-> FALSE, offset |-> 0, size |-> length]
  IN  [code |-> r.code, active |-> r.active, offset |-> r.offset, size |-> r.size, chunked |-> req.te]

\* The head of the answer: status line, CONTENT-LENGTH, TRANSFER-ENCODING.
AnswerHead(instr) ==
  [status |-> IF instr.active THEN HTTP_PARTIAL_CONTENT ELSE OK,
   clen |-> IF instr.chunked \/ instr.size < 0 THEN NULL ELSE instr.size,
   chunked |-> instr.chunked]

-----------------------------------------------------------------------------
(* Where the description of a device is served *)

\* The path under which URLBase puts a device; NULL when the document has none.
config_description_doc(urlbase) == IF urlbase = NULL THEN <<>> ELSE urlbase

calc_alias(alias, root) == root \o alias

\* The name of a document that is not given as text, which must be an .xml file.
GetNameForAlias(desc) == IF desc.xml THEN <<Last(desc.name)>> ELSE NULL

configure_urlbase(desc, alias) == calc_alias(alias, config_description_doc(desc.urlbase))

\* A description has type "BUF", "FILE" or "URL", a name, and may be well formed or found.
GetDescDocumentAndURL(desc, config_baseURL) ==
  LET alias == IF desc.type = "BUF" THEN <<"description.xml">> ELSE GetNameForAlias(desc)
  IN  IF (desc.type # "URL" /\ ~config_baseURL) \/ ~desc.found THEN NULL
      ELSE IF ~config_baseURL THEN desc.name
      ELSE IF alias = NULL THEN NULL
      ELSE configure_urlbase(desc, alias)

=============================================================================
