-------------------------------- MODULE Vfs --------------------------------
(***************************************************************************)
(* vfs.c and db_sqlite.c: the tree of containers and resources a server    *)
(* offers, and the data base its items outlive the process in.             *)
(*                                                                         *)
(* The file system of a process, v, has                                    *)
(*   mem      every vfs_item_t ever made: an item is its place here, and   *)
(*            none is ever given back                                      *)
(*   root     the hash of items by id, in the order they entered it        *)
(*   count    vfs_items                                                    *)
(*   db       NULL, the name of the open data base, or "closed"            *)
(*   lpcm     the profile all LPCM files share                             *)
(*   mode     "DLNA", "UPNP_AV" or "UPNP_AV_XBOX"                           *)
(*   broken   the process has used what it freed, or read through NULL     *)
(* A data base is [tables, items, metadata, properties], the last three    *)
(* functions of the ids stored.                                            *)
(***************************************************************************)
EXTENDS MediaProfiles

CONSTANTS
  Hash,          \* what crc32 makes of a number and a path: a function of <<number, path>>
  UINT32,        \* the size of a file is stored modulo this
  INT32          \* and the ids from here on are asked for as negative numbers

STARTING_ENTRY_ID_XBOX360 == 100000

crc32(crc, path) == Hash[<<crc, path>>]

NoContents == [filename |-> NULL, filesize |-> 0, profile |-> NULL, properties |-> NULL, metadata |-> NULL,
               cookie |-> FALSE]

vfs_item(id, title, type) ==
  [id |-> id, title |-> title, type |-> type, parent |-> NULL, children |-> <<>>, children_count |-> 0,
   updateID |-> 0, item |-> NULL, freed |-> FALSE]

NoVfs ==
  [mem |-> <<>>, root |-> <<>>, count |-> 0, db |-> NULL, lpcm |-> NULL, mode |-> "DLNA", broken |-> FALSE]

Broken(v) == [v EXCEPT !.broken = TRUE]

\* The profile an item points to now.
Shared(profile) == profile # NULL /\ profile.id \in {"LPCM", "LPCM_low"} /\ profile.mime # NULL

ProfileOf(v, profile) == IF Shared(profile) THEN v.lpcm ELSE profile

-----------------------------------------------------------------------------
(* Finding *)

vfs_is_id_registered(v, id) == \E i \in DOMAIN v.root : v.mem[v.root[i]].id = id

vfs_get_item_by_id(v, id) == First(v.root, LAMBDA p : v.mem[p].id = id)

vfs_get_item_by_name(v, name) == First(v.root, LAMBDA p : v.mem[p].title = name)

StartId(v) == IF v.mode = "UPNP_AV_XBOX" THEN 1 + STARTING_ENTRY_ID_XBOX360 ELSE 1

\* The first code no item has: of a number or, with a path, of both.  Each number is one more than the code before it;
\* when one more code than there are items leads to none, the numbers go round: NULL is a search without an end.
NextId(v, start, path) ==
  LET code(i) == IF path = NULL THEN i ELSE crc32(i, path)
      number[n \in Nat] == IF n = 0 THEN start ELSE code(number[n - 1]) + 1
      free == {n \in 0..Len(v.root) : ~vfs_is_id_registered(v, code(number[n]))}
  IN  IF free = {} THEN NULL ELSE code(number[Min(free)])

\* The code of a path is taken whether or not an item has it.
vfs_provide_next_id_Unchecked(v, path) ==
  IF v.root = <<>> THEN StartId(v) - 1 ELSE IF path = NULL THEN NextId(v, StartId(v), NULL) ELSE crc32(StartId(v), path)

vfs_provide_next_id(v, path) == IF v.root = <<>> THEN StartId(v) - 1 ELSE NextId(v, StartId(v), path)

-----------------------------------------------------------------------------
(* The data base *)

EmptyDb == [tables |-> FALSE, items |-> <<>>, metadata |-> <<>>, properties |-> <<>>]

\* dbs: name -> data base, those the process can open.
dms_db_open(v, dbs, dbname) == IF dbname \in DOMAIN dbs THEN [v EXCEPT !.db = dbname] ELSE v

dms_db_check(db) == db.tables

dms_db_create(db) == [db EXCEPT !.tables = TRUE]

\* The pointer stays.
dms_db_close(v) == IF v.db = NULL THEN v ELSE [v EXCEPT !.db = "closed"]

Row(db, id) == id < INT32 /\ id \in DOMAIN db.items

\* What is stored of a text has at least that many characters, the first of them blanks; what is read has at most that many.
DLNA_PROPERTIES_DURATION_MAX_SIZE == 64
DLNA_PROPERTIES_RESOLUTION_MAX_SIZE == 64

TextLength(t) == t.blanks + Len(t.text)
Padded(t, size) == [t EXCEPT !.blanks = @ + Max({0, size - TextLength(t)})]
Cut(t, size) == [blanks |-> Min({t.blanks, size}), text |-> SubSeq(t.text, 1, Min({size - t.blanks, Len(t.text)}))]

dms_db_items_callback(row) ==
  [NoContents EXCEPT !.filename = row.filename, !.filesize = row.filesize, !.profile = dlna_get_media_profile(row.profileid)]

dms_db_metadata_callback(db, id) == IF id \in DOMAIN db.metadata THEN db.metadata[id] ELSE NULL

\* One character of each array is kept for its end.
ReadColumns(row) ==
  [row EXCEPT !.duration = Cut(@, DLNA_PROPERTIES_DURATION_MAX_SIZE - 1),
              !.resolution = Cut(@, DLNA_PROPERTIES_RESOLUTION_MAX_SIZE - 1)]

dms_db_properties_callback(db, id) == IF id \in DOMAIN db.properties THEN ReadColumns(db.properties[id]) ELSE NULL

dms_db_get(v, dbs, id) ==
  LET db == dbs[v.db]
  IN  IF v.db = NULL \/ ~dms_db_check(db) \/ ~Row(db, id) THEN NULL
      ELSE [dms_db_items_callback(db.items[id]) EXCEPT
              !.metadata = dms_db_metadata_callback(db, id), !.properties = dms_db_properties_callback(db, id)]

\* A row is left as it is when there is one.
Stored(rows, id, row) == [i \in DOMAIN rows \cup {id} |-> IF i \in DOMAIN rows THEN rows[i] ELSE row]

\* The size is stored in fewer bits than it is read into.
dms_db_add_item_Narrow(v, dbs, id, item) ==
  [dbs EXCEPT ![v.db].items =
     Stored(@, id, [filename |-> item.filename, filesize |-> item.filesize % (UINT32 \div 16), profileid |-> item.profile.id])]

\* The columns of the two texts are as wide as the arrays they are read into.
FitColumns(properties) ==
  [properties EXCEPT !.duration = Padded(@, DLNA_PROPERTIES_DURATION_MAX_SIZE),
                     !.resolution = Padded(@, DLNA_PROPERTIES_RESOLUTION_MAX_SIZE)]

\* Three statements, each of them its own transaction.  What is known of the streams is stored with the tags.
dms_db_add_item(v, dbs, id, item) ==
  LET db == dbs[v.db]
      row == [filename |-> item.filename, filesize |-> item.filesize % UINT32,
              profileid |-> IF item.profile.id = NULL THEN "(NULL)" ELSE item.profile.id]
  IN  [dbs EXCEPT ![v.db].items = Stored(@, id, row)]

dms_db_add_metadata(v, dbs, id, item) ==
  IF item.metadata = NULL THEN dbs ELSE [dbs EXCEPT ![v.db].metadata = Stored(@, id, item.metadata)]

dms_db_add_properties(v, dbs, id, item) ==
  IF item.metadata = NULL THEN dbs ELSE [dbs EXCEPT ![v.db].properties = Stored(@, id, FitColumns(item.properties))]

\* The first of them fails where there is no table, or there is a row of that id.
CanAdd(v, dbs, id) == v.db # NULL /\ dms_db_check(dbs[v.db]) /\ id \notin DOMAIN dbs[v.db].items

-----------------------------------------------------------------------------
(* The tree *)

\* A new child comes before the others.
vfs_item_add_child_First(v, p, child) ==
  [v EXCEPT !.mem[p].children = <<child>> \o @, !.mem[p].children_count = @ + 1, !.count = @ + 1]

vfs_item_add_child(v, p, child) ==
  LET item == v.mem[p]
  IN  IF child \in Range(item.children) THEN v
      ELSE [v EXCEPT !.mem[p].children = Append(@, child), !.mem[p].children_count = @ + 1, !.count = @ + 1]

\* [v, id]: a container is made, found by its id, and put under another or under the root.
dlna_vfs_add_container(v, name, object_id, container_id) ==
  LET id == IF object_id = 0 \/ vfs_is_id_registered(v, object_id) THEN vfs_provide_next_id(v, NULL) ELSE object_id
      p == Len(v.mem) + 1
      made == [v EXCEPT !.mem = Append(@, vfs_item(id, name, "CONTAINER")), !.root = Append(@, p)]
      found == vfs_get_item_by_id(made, container_id)
      parent == IF found = NULL THEN Head(made.root) ELSE found
      placed == [made EXCEPT !.mem[p].parent = parent,
                             !.mem[parent].updateID = IF found = NULL \/ parent = p THEN @ ELSE @ + 1]
  IN  [v |-> IF parent = p THEN placed ELSE vfs_item_add_child(placed, parent, p), id |-> id]

\* A resource that holds the item, which may have been read from its file; then it can be new to the data base.
Holding(v, resource, item, read, can_add) ==
  LET w == [v EXCEPT !.mem = Append(@, [resource EXCEPT !.item = item])]
  IN  IF v.db = "closed" \/ item = CRASH \/ (item = NULL /\ v.db # NULL)
        THEN [v |-> Broken(v), p |-> NULL, new |-> FALSE]
      ELSE [v |-> IF read /\ item # NULL /\ Shared(item.profile) THEN [w EXCEPT !.lpcm = item.profile] ELSE w,
            p |-> Len(w.mem), new |-> read /\ item # NULL /\ can_add]

\* The file is given an id and looked up under it: what the data base knows by that id it is taken to be.
\* [v, p, new]: p is NULL when nothing is made, and new says the contents are yet to be stored.
AddResource_Make(v, dbs, name, fullpath) ==
  LET id == vfs_provide_next_id(v, fullpath)
      stored == dms_db_get(v, dbs, id)
      item == IF stored # NULL THEN stored ELSE dlna_item_new(fullpath)
  IN  IF v.root = <<>> THEN [v |-> v, p |-> NULL, new |-> FALSE]
      ELSE Holding(v, vfs_item(id, name, "RESOURCE"), item, stored = NULL, CanAdd(v, dbs, id))

\* An item without contents is taken out of the hash again, and stays where it is in memory.
\* The others get a parent, whose updateID changes before its children do.
AddResource_Publish(v, p, container_id) ==
  LET made == [v EXCEPT !.root = Append(@, p)]
      found == vfs_get_item_by_id(made, container_id)
      parent == IF found = NULL THEN Head(made.root) ELSE found
      w == [made EXCEPT !.mem[p].parent = parent, !.mem[parent].updateID = IF found = NULL THEN @ ELSE @ + 1]
  IN  IF v.mem[p].item = NULL THEN [v EXCEPT !.mem[p].freed = TRUE, !.count = @ - 1]
      ELSE IF made.mem[parent].type # "CONTAINER" THEN Broken(w) ELSE w

AddResource_Link(v, p) == vfs_item_add_child(v, v.mem[p].parent, p)

-----------------------------------------------------------------------------
(* Taking away.  An item that is freed stays in its parent's children *)

\* Where one comes who goes through the children of what is not freed, depth first.
Visited(v, p) ==
  LET from[q \in DOMAIN v.mem] ==
        <<q>> \o (IF v.mem[q].type # "CONTAINER" \/ v.mem[q].freed THEN <<>>
                  ELSE FlattenSeq([i \in DOMAIN v.mem[q].children |-> from[v.mem[q].children[i]]]))
  IN  from[p]

\* Only what the stream profiler has read of the file can be freed: the rest goes through NULL.
CanFree(item) == item.cookie

\* Item by item, until the hash is empty or there is one that is freed already or whose contents cannot be.
vfs_item_free(v, p) ==
  LET order == Visited(v, p)
      done(i) == {order[j] : j \in 1..(i - 1)}
      breaks(item) == item.freed \/ (item.type = "RESOURCE" /\ item.item # NULL /\ ~CanFree(item.item))
      end == Min({i \in 1..(Len(order) + 1) :
                    i > Len(order) \/ Range(v.root) \subseteq done(i) \/ breaks(v.mem[order[i]])})
      gone == done(end)
  IN  IF p = NULL \/ v.root = <<>> THEN v
      ELSE [v EXCEPT !.root = SelectSeq(@, LAMBDA q : q \notin gone), !.count = @ - Cardinality(gone),
                     !.mem = [q \in DOMAIN v.mem |-> IF q \in gone THEN [v.mem[q] EXCEPT !.freed = TRUE, !.parent = NULL]
                                                    ELSE v.mem[q]],
                     !.broken = end <= Len(order) /\ ~(Range(v.root) \subseteq gone)]

\* What is not there is written to the log first.
Removed(v, p) == IF p = NULL THEN Broken(v) ELSE vfs_item_free(v, p)

dlna_vfs_remove_item_by_id(v, id) == Removed(v, vfs_get_item_by_id(v, id))

dlna_vfs_remove_item_by_title(v, name) == Removed(v, vfs_get_item_by_name(v, name))

=============================================================================
