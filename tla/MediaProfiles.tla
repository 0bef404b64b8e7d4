--------------------------- MODULE MediaProfiles ---------------------------
(***************************************************************************)
(* profiles.c: the media profile of a file and the items made from files,  *)
(* with the profiler that goes by a file's extension (upnpav_profiler) or  *)
(* the one that goes by its streams (ffmpeg_profiler, module StreamProfiles). *)
(***************************************************************************)
EXTENDS Integers, SequencesExt, StreamProfiles

CONSTANTS
  Files,      \* name -> [length, readable, directory, media], media as in module Containers; length is NULL
              \* for a file that is not there
  Profiler    \* "upnpav" or "ffmpeg"

\* Entries of one type stand in no particular order: no extension is listed under two types.
Class(class, types) ==
  LET entry(t) == SetToSeq({[extension |-> e, profile |-> [Profile(NULL, t[1]) EXCEPT !.class = class]] : e \in t[2]})
  IN  FlattenSeq([i \in DOMAIN types |-> entry(types[i])])

mime_type_list ==
  Class("AV", <<
    <<"video/x-ms-asf", {"asf"}>>, <<"video/avi", {"avc", "avi", "divx"}>>, <<"video/x-dv", {"dv"}>>,
    <<"video/x-ms-wmv", {"wmv"}>>, <<"video/x-motion-jpeg", {"mjpg", "mjpeg"}>>,
    <<"video/mpeg", {"mpeg", "mpg", "mpe", "m1v", "ogm", "mkv", "rmvb"}>>, <<"video/mp2p", {"mp2p", "vob"}>>,
    <<"video/mp2t", {"mp2t"}>>, <<"video/mpeg2", {"m2v", "mpg2", "mpeg2", "ts", "bin", "iso"}>>,
    <<"video/mp4", {"m4v", "m4p", "mp4"}>>, <<"video/x-nerodigital-ps", {"mp4ps"}>>,
    <<"video/quicktime", {"mov", "hdmov", "qt"}>>>>)
  \o Class("AUDIO", <<
    <<"audio/3gpp", {"3gp"}>>, <<"audio/x-aac", {"aac"}>>, <<"audio/x-ac3", {"ac3"}>>, <<"audio/aiff", {"aif", "aiff"}>>,
    <<"audio/x-atrac3", {"at3p"}>>, <<"audio/basic", {"au", "snd"}>>, <<"audio/x-dts", {"dts"}>>,
    <<"audio/midi", {"rmi", "mid"}>>, <<"audio/mp1", {"mp1"}>>, <<"audio/mp2", {"mp2"}>>, <<"audio/mpeg", {"mp3", "mka"}>>,
    <<"audio/mp4", {"m4a"}>>, <<"audio/x-ogg", {"ogg"}>>, <<"audio/wav", {"wav"}>>, <<"audio/l16", {"pcm", "lpcm", "l16"}>>,
    <<"audio/x-ms-wma", {"wma"}>>, <<"audio/x-pn-realaudio", {"ra", "rm", "ram"}>>, <<"audio/x-flac", {"flac"}>>>>)
  \o Class("IMAGE", <<
    <<"image/bmp", {"bmp"}>>, <<"image/x-icon", {"ico"}>>, <<"image/gif", {"gif"}>>, <<"image/jpeg", {"jpeg", "jpg", "jpe"}>>,
    <<"image/x-ms-bmp", {"pcd"}>>, <<"image/png", {"png"}>>, <<"image/x-portable-anymap", {"pnm"}>>,
    <<"image/x-portable-pixmap", {"ppm"}>>, <<"image/x-quicktime", {"qti", "qtf", "qtif"}>>, <<"image/tiff", {"tif", "tiff"}>>>>)

get_file_extension(filename) == Files[filename].media.ext

upnp_get_supported_mime_types ==
  FoldLeft(LAMBDA mimes, t : dlna_list_add(mimes, t.profile.mime), <<>>, mime_type_list)

\* The profiles of this profiler have no id: a stored one, an empty text, is no extension either.
upnp_get_media_profile(profileid) ==
  LET t == SelectSeq(mime_type_list, LAMBDA m : m.extension = profileid)
  IN  IF t = <<>> THEN NULL ELSE Head(t).profile

upnp_guess_media_profile(filename) ==
  LET t == SelectSeq(mime_type_list, LAMBDA m : m.extension = get_file_extension(filename))
  IN  IF t = <<>> THEN NULL ELSE Last(t).profile

guess_media_profile(filename) ==
  IF Profiler = "upnpav" THEN upnp_guess_media_profile(filename)
  ELSE ffmpeg_profiler_guess_media_profile(Files[filename].media)

dlna_get_supported_mime_types ==
  IF Profiler = "upnpav" THEN upnp_get_supported_mime_types ELSE ffmpeg_profiler_get_supported_mime_types

dlna_get_media_profile(profileid) ==
  IF profileid = NULL THEN NULL
  ELSE IF Profiler = "upnpav" THEN upnp_get_media_profile(profileid)
  ELSE ffmpeg_profiler_get_media_profile(profileid)

dlna_profile_upnp_object_item(profile) ==
  IF profile = NULL THEN NULL
  ELSE CASE profile.class = "IMAGE" -> "object.item.imageItem.photo"
         [] profile.class = "AUDIO" -> "object.item.audioItem.musicTrack"
         [] profile.class = "AV" -> "object.item.videoItem.movie"
         [] OTHER -> NULL

\* What is known of a file's contents is read when the item is made, by the stream profiler alone.
ItemOf(filename, file, profile) ==
  IF profile \in {NULL, CRASH} THEN profile
  ELSE [filename |-> filename, filesize |-> IF file.length = NULL THEN -1 ELSE file.length, profile |-> profile,
        properties |-> IF Profiler = "ffmpeg" THEN item_get_properties(file.media) ELSE NULL,
        metadata |-> IF Profiler = "ffmpeg" THEN item_get_metadata(file.media) ELSE NULL,
        cookie |-> Profiler = "ffmpeg"]

dlna_item_new(filename) == ItemOf(filename, Files[filename], guess_media_profile(filename))

=============================================================================
