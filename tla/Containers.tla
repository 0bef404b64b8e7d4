----------------------------- MODULE Containers -----------------------------
(***************************************************************************)
(* ffmpeg_profiler/containers.c and what its profiles share (profiles.h).  *)
(*                                                                         *)
(* The file a probe looks at, ctx, is what libavformat has read of it:     *)
(*   ext         its extension in small letters                            *)
(*   iformat     the name of its format                                    *)
(*   bit_rate    of the whole                                              *)
(*   streams     a sequence of audio and video streams                     *)
(*   head        how its first bytes look: packets of 188 or 192 bytes with *)
(*               a sync code, a pack header or another start code, an ADTS  *)
(*               header with its object type, or none of these             *)
(* An audio stream has type, codec_id, channels, sample_rate, bit_rate and *)
(* object_type; a video stream type, codec_id, width, height, bit_rate and *)
(* its frame rate num / den.                                               *)
(***************************************************************************)
EXTENDS Options

MIME_AUDIO_3GP == "audio/3gpp"
MIME_AUDIO_ADTS == "audio/vnd.dlna.adts"
MIME_AUDIO_MPEG_4 == "audio/mp4"
MIME_AUDIO_LPCM == "audio/L16"
MIME_VIDEO_3GP == "video/3gpp"
MIME_VIDEO_ASF == "video/x-ms-asf"
MIME_VIDEO_MPEG == "video/mpeg"
MIME_VIDEO_MPEG_4 == "video/mp4"
MIME_VIDEO_MPEG_TS == "video/vnd.dlna.mpeg-tts"
MIME_VIDEO_WMV == "video/x-ms-wmv"

\* A profile is told by its id and its type; its class is that of the family that finds it.
Profile(id, mime) == [id |-> id, mime |-> mime, class |-> "UNKNOWN"]

avf_format_mapping ==
  [image2 |-> "CT_IMAGE", asf |-> "CT_ASF", amr |-> "CT_AMR", aac |-> "CT_AAC", ac3 |-> "CT_AC3", mp3 |-> "CT_MP3",
   wav |-> "CT_WAV", mov |-> "CT_MOV", mpeg |-> "CT_FF_MPEG", mpegts |-> "CT_FF_MPEG_TS"]

\* The case of no time stamps asks the byte it has just found to be 0x47 to be 0: it never happens.
mpeg_find_container_type(ctx) ==
  CASE ctx.head = "sync188" -> "CT_MPEG_TRANSPORT_STREAM"
    [] ctx.head = "sync192" -> "CT_MPEG_TRANSPORT_STREAM_DLNA"
    [] ctx.head = "pack" -> "CT_MPEG_PROGRAM_STREAM"
    [] ctx.head = "start" -> "CT_MPEG_ELEMENTARY_STREAM"
    [] OTHER -> "CT_UNKNOWN"

mov_find_container_type(ctx) == IF ctx.ext \in {"3gp", "3gpp", "3g2"} THEN "CT_3GP" ELSE "CT_MP4"

stream_get_container(ctx) ==
  IF ctx.iformat \notin DOMAIN avf_format_mapping THEN "CT_UNKNOWN"
  ELSE CASE ctx.iformat \in {"mpeg", "mpegts"} -> mpeg_find_container_type(ctx)
         [] ctx.iformat = "mov" -> mov_find_container_type(ctx)
         [] OTHER -> avf_format_mapping[ctx.iformat]

-----------------------------------------------------------------------------
(* codecs is [nb_streams, ac, vc]: the first stream of each type, or NULL *)

\* The first audio and the first video stream; NULL when there is neither.
av_profile_get_codecs(ctx) ==
  LET first(type) ==
        LET s == SelectSeq(ctx.streams, LAMBDA t : t.type = type) IN IF s = <<>> THEN NULL ELSE Head(s)
      codecs == [nb_streams |-> Len(ctx.streams), ac |-> first("AUDIO"), vc |-> first("VIDEO")]
  IN  IF codecs.ac = NULL /\ codecs.vc = NULL THEN NULL ELSE codecs

stream_ctx_is_image(ctx, codecs) ==
  codecs.nb_streams <= 1 /\ stream_get_container(ctx) = "CT_IMAGE" /\ codecs.vc # NULL

\* A film's sound is taken for audio.
stream_ctx_is_audio_Any(codecs) == codecs.ac # NULL

stream_ctx_is_audio(codecs) == codecs.ac # NULL /\ codecs.vc = NULL

stream_ctx_is_av(codecs) == codecs.ac # NULL /\ codecs.vc # NULL

=============================================================================
