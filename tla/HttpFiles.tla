------------------------------ MODULE HttpFiles ------------------------------
(***************************************************************************)
(* http.c: the handles through which the web server reads what lies in the *)
(* library's virtual directories, with no callbacks of the application's   *)
(* own (dlna->http_callback is NULL).                                      *)
(*                                                                         *)
(* A path is a sequence of names.  A file system fs has                    *)
(*   items     id -> [type, filename, mime], the virtual file system       *)
(*   services  url -> length of the service's description                  *)
(*   disk      filename -> [length, directory, readable]                   *)
(***************************************************************************)
EXTENDS Options

CONSTANTS
  SERVICES_VIRTUAL_DIR    \* the name under which descriptions are served

\* The item a path names: its last name is a number, or is taken for 0.
IdOf(fs, path) ==
  LET ids == {id \in DOMAIN fs.items : ToString(id) = Last(path)}
  IN  IF ids = {} THEN 0 ELSE CHOOSE id \in ids : TRUE

ServiceOf(fs, path) ==
  IF Len(path) > 1 /\ path[1] = SERVICES_VIRTUAL_DIR /\ path[2] \in DOMAIN fs.services
    THEN path[2] ELSE NULL

set_service_http_info(length) ==
  [file_length |-> length, is_directory |-> FALSE, is_readable |-> TRUE, content_type |-> "text/xml"]

dlna_http_get_info(fs, path) ==
  LET id == IdOf(fs, path)
      item == fs.items[id]
      file == fs.disk[item.filename]
  IN  IF ServiceOf(fs, path) # NULL
        THEN set_service_http_info(fs.services[ServiceOf(fs, path)])
      ELSE IF id \notin DOMAIN fs.items \/ item.type # "RESOURCE" \/ item.filename \notin DOMAIN fs.disk
        THEN NULL
      ELSE [file_length |-> file.length, is_directory |-> file.directory,
            is_readable |-> file.readable, content_type |-> item.mime]

http_get_file_from_memory(length) ==
  IF length = 0 THEN NULL ELSE [type |-> "MEMORY", name |-> NULL, pos |-> 0, len |-> length]

http_get_file_local(fs, filename) ==
  IF filename \in DOMAIN fs.disk /\ fs.disk[filename].readable
    THEN [type |-> "LOCAL", name |-> filename, pos |-> 0, len |-> 0]
    ELSE NULL

dlna_http_open(fs, path, mode) ==
  IF mode # "READ" THEN NULL
  ELSE IF ServiceOf(fs, path) # NULL THEN http_get_file_from_memory(fs.services[ServiceOf(fs, path)])
  ELSE IF IdOf(fs, path) \notin DOMAIN fs.items THEN NULL
  ELSE http_get_file_local(fs, fs.items[IdOf(fs, path)].filename)

\* How many bytes a read of at most n returns; the handle moves on by as many.
dlna_http_read(fs, h, n) ==
  LET length == IF h.type = "LOCAL" THEN fs.disk[h.name].length ELSE h.len
  IN  Max({0, Min({n, length - h.pos})})

Advanced(h, n) == [h EXCEPT !.pos = @ + n]

\* The handle after the seek, or NULL when it fails.
dlna_http_seek(fs, h, offset, origin) ==
  LET end == IF h.type = "LOCAL" THEN fs.disk[h.name].length ELSE h.len
      newpos == offset + (CASE origin = "SET" -> 0 [] origin = "CUR" -> h.pos [] origin = "END" -> end)
  IN  IF newpos < 0 \/ (h.type = "MEMORY" /\ newpos > h.len) THEN NULL ELSE [h EXCEPT !.pos = newpos]

=============================================================================
