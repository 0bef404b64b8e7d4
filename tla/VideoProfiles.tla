---------------------------- MODULE VideoProfiles ----------------------------
(***************************************************************************)
(* ffmpeg_profiler/image_*.c, av_mpeg1.c, av_mpeg2.c and av_wmv9.c.        *)
(***************************************************************************)
EXTENDS AudioProfiles

-----------------------------------------------------------------------------
(* image_jpeg.c, image_png.c: the smallest of the sizes an image fits in *)

Image(id, mime, size) == [profile |-> Profile(id, mime), max_width |-> size[1], max_height |-> size[2]]

jpeg_profiles_mapping ==
  LET jpeg(id, size) == Image(id, "image/jpeg", size)
  IN  <<jpeg("JPEG_SM_ICO", <<48, 48>>), jpeg("JPEG_LRG_ICO", <<120, 120>>), jpeg("JPEG_TN", <<160, 160>>),
        jpeg("JPEG_SM", <<640, 480>>), jpeg("JPEG_MED", <<1024, 768>>), jpeg("JPEG_LRG", <<4096, 4096>>)>>

png_profiles_mapping ==
  LET png(id, size) == Image(id, "image/png", size)
  IN  <<png("PNG_SM_ICO", <<48, 48>>), png("PNG_LRG_ICO", <<120, 120>>), png("PNG_TN", <<160, 160>>),
        png("PNG_LRG", <<4096, 4096>>)>>

Fitting(table, vc) ==
  LET row == First(table, LAMBDA r : vc.width <= r.max_width /\ vc.height <= r.max_height)
  IN  IF row = NULL THEN NULL ELSE row.profile

probe_jpeg(ctx, codecs) ==
  IF stream_ctx_is_image(ctx, codecs) /\ codecs.vc.codec_id \in {"MJPEG", "MJPEGB", "LJPEG", "JPEGLS"}
    THEN Fitting(jpeg_profiles_mapping, codecs.vc) ELSE NULL

probe_png(ctx, codecs) ==
  IF stream_ctx_is_image(ctx, codecs) /\ codecs.vc.codec_id = "PNG"
    THEN Fitting(png_profiles_mapping, codecs.vc) ELSE NULL

-----------------------------------------------------------------------------
(* av_mpeg1.c *)

mpeg1 == Profile("MPEG1", MIME_VIDEO_MPEG)

\* Either part of a frame rate is enough.
probe_mpeg1(ctx, codecs) ==
  LET vc == codecs.vc
      ac == codecs.ac
      pal == vc.width = 352 /\ vc.height = 288 /\ (vc.num = 25 \/ vc.den = 1)
      ntsc == vc.width = 352 /\ vc.height = 240 /\ (vc.num = 30000 \/ vc.den = 1001)
                                               /\ (vc.num = 24000 \/ vc.den = 1001)
  IN  IF /\ stream_ctx_is_av(codecs)
         /\ vc.codec_id = "MPEG1VIDEO" /\ vc.bit_rate = 1150000 /\ (pal \/ ntsc)
         /\ ac.codec_id = "MP2" /\ ac.channels = 2 /\ ac.sample_rate = 44100 /\ ac.bit_rate = 224000
        THEN mpeg1 ELSE NULL

-----------------------------------------------------------------------------
(* av_mpeg2.c *)

mpeg_ps_es_valid_streams_ntsc == ({720, 704, 544, 480, 352} \X {480}) \cup {<<352, 240>>}
mpeg_ps_es_valid_streams_pal == ({720, 704, 544, 480, 352} \X {576}) \cup {<<352, 288>>}
mpeg_ts_valid_streams_eu_sd == ({720, 544, 480, 352} \X {576}) \cup {<<252, 288>>}
mpeg_ts_valid_streams_na_sd ==
  {<<w, 480, 30, 1001>> : w \in {720, 544, 480, 352}}
  \cup {<<w, 480, num, den>> : w \in {704, 640}, num \in {30, 24}, den \in {1001, 1}}
mpeg_ts_valid_streams_na_hd ==
  {<<size[1], size[2], num, den>> :
     size \in {<<1920, 1080>>, <<1280, 720>>, <<1440, 1080>>, <<1280, 1080>>}, num \in {30, 24}, den \in {1001, 1}}

MpegPs(std) == Profile("MPEG_PS_" \o std, MIME_VIDEO_MPEG)
MpegEs(std) == Profile("MPEG_ES_" \o std, MIME_VIDEO_MPEG)

\* The three profiles of a kind of transport stream.
TsKinds == <<"CT_MPEG_TRANSPORT_STREAM_DLNA_NO_TS", "CT_MPEG_TRANSPORT_STREAM_DLNA", "CT_MPEG_TRANSPORT_STREAM">>
Ts(id) == <<Profile(id, MIME_VIDEO_MPEG_TS), Profile(id \o "_T", MIME_VIDEO_MPEG_TS), Profile(id \o "_ISO", MIME_VIDEO_MPEG)>>
MpegTs(kind) == Ts("MPEG_TS_" \o kind)
OfKind(profiles, st) == profiles[CHOOSE i \in DOMAIN TsKinds : TsKinds[i] = st]

is_mpeg_ps_es_audio_stream_lpcm(ac) ==
  /\ audio_profile_guess_lpcm(ac) = "LPCM"
  /\ ac.channels = 2 => ac.bit_rate <= 1536000
  /\ ac.channels = 1 => ac.bit_rate <= 768000

is_mpeg_ps_es_audio_stream_extended_ac3(ac) == audio_profile_guess_ac3(ac) = "AC3_EXTENDED"

is_mpeg_ps_es_audio_stream_ac3(ac) == audio_profile_guess_ac3(ac) = "AC3"

is_mpeg_ps_es_audio_stream_mp2(ac) ==
  /\ audio_profile_guess_mp2(ac) = "MP2"
  /\ ac.channels <= 2
  /\ ac.channels = 1 => ac.bit_rate \in 64000..192000
  /\ ac.channels = 2 => ac.bit_rate \in 64000..384000

is_mpeg_ts_audio_stream_mp2(ac) == audio_profile_guess_mp2(ac) = "MP2"

is_mpeg_ts_audio_stream_ac3(ac) == audio_profile_guess_ac3(ac) = "AC3"

probe_mpeg_ps_es(codecs, kind) ==
  LET vc == codecs.vc
      ac == codecs.ac
      std == CASE vc.num = 30000 /\ vc.den = 1001 -> "NTSC" [] vc.num = 25 /\ vc.den = 1 -> "PAL" [] OTHER -> NULL
      Named(name) == IF kind = "PS" THEN MpegPs(name) ELSE MpegEs(name)
      sizes == IF std = "NTSC" THEN mpeg_ps_es_valid_streams_ntsc ELSE mpeg_ps_es_valid_streams_pal
  IN  IF std = NULL \/ <<vc.width, vc.height>> \notin sizes THEN NULL
      ELSE IF is_mpeg_ps_es_audio_stream_extended_ac3(ac) THEN Named(std \o "_XAC3")
      ELSE IF \/ is_mpeg_ps_es_audio_stream_lpcm(ac) \/ is_mpeg_ps_es_audio_stream_ac3(ac)
              \/ is_mpeg_ps_es_audio_stream_mp2(ac)
        THEN Named(std) ELSE NULL

probe_mpeg_ps(codecs) == probe_mpeg_ps_es(codecs, "PS")

probe_mpeg_es(codecs) == probe_mpeg_ps_es(codecs, "ES")

\* Rates in the American tables have two parts, both compared with the numerator: no stream is in them.
probe_mpeg_ts(ctx, codecs, st) ==
  LET vc == codecs.vc
      ac == codecs.ac
      aac == /\ vc.width = 352 \/ vc.height = 288
             /\ vc.num = 30 \/ vc.den = 1
             /\ vc.bit_rate <= 4000000 /\ ac.bit_rate <= 256000
      eu == /\ <<vc.width, vc.height>> \in mpeg_ts_valid_streams_eu_sd
            /\ is_mpeg_ts_audio_stream_ac3(ac) \/ is_mpeg_ts_audio_stream_mp2(ac)
      na == /\ ctx.bit_rate <= 19392700
            /\ ac.codec_id = "AC3" /\ ac.sample_rate = 48000 /\ ac.channels <= 5 /\ ac.bit_rate <= 640000
      xac3 == IF ac.bit_rate > 448000 THEN "_XAC3" ELSE ""
      found == <<vc.width, vc.height, vc.num, vc.num>>
  IN  IF ac.codec_id = "AAC" THEN IF aac THEN OfKind(MpegTs("MP_LL_AAC"), st) ELSE NULL
      ELSE IF vc.num = 25 /\ vc.den = 1 THEN IF eu THEN OfKind(MpegTs("SD_EU"), st) ELSE NULL
      ELSE CASE na /\ found \in mpeg_ts_valid_streams_na_sd -> OfKind(MpegTs("SD_NA" \o xac3), st)
             [] na /\ found \in mpeg_ts_valid_streams_na_hd -> OfKind(MpegTs("HD_NA" \o xac3), st)
             [] OTHER -> NULL

probe_mpeg2(ctx, codecs) ==
  LET st == stream_get_container(ctx)
  IN  IF ~stream_ctx_is_av(codecs) \/ codecs.vc.codec_id # "MPEG2VIDEO" THEN NULL
      ELSE CASE st = "CT_MPEG_ELEMENTARY_STREAM" -> probe_mpeg_es(codecs)
             [] st = "CT_MPEG_PROGRAM_STREAM" -> probe_mpeg_ps(codecs)
             [] st \in Range(TsKinds) -> probe_mpeg_ts(ctx, codecs, st)
             [] OTHER -> NULL

dlna_profiles_supported_av_mpeg2 ==
  <<MpegPs("NTSC"), MpegPs("NTSC_XAC3"), MpegPs("PAL"), MpegPs("PAL_XAC3")>>
  \o MpegTs("MP_LL_AAC") \o MpegTs("SD_EU") \o MpegTs("SD_NA") \o MpegTs("SD_NA_XAC3") \o MpegTs("HD_NA") \o MpegTs("HD_NA_XAC3")
  \o <<MpegEs("PAL"), MpegEs("NTSC"), MpegEs("PAL_XAC3"), MpegEs("NTSC_XAC3")>>

-----------------------------------------------------------------------------
(* av_wmv9.c *)

\* Rows of a video profile: widest, highest, the frame rate and the highest bit rate.
Wmv9Rows == <<
  <<"SIMPLE_LOW", 176, 144, 15, 1, 96000>>,
  <<"SIMPLE_MEDIUM", 240, 176, 30, 1, 384000>>, <<"SIMPLE_MEDIUM", 240, 176, 30000, 1001, 384000>>,
  <<"SIMPLE_MEDIUM", 352, 288, 15, 1, 384000>>,
  <<"MAIN_MEDIUM", 720, 480, 30, 1, 10000000>>, <<"MAIN_MEDIUM", 720, 480, 30000, 1001, 10000000>>,
  <<"MAIN_MEDIUM", 720, 576, 25, 1, 10000000>>,
  <<"MAIN_HIGH", 1920, 1080, 30, 1, 20000000>>, <<"MAIN_HIGH", 1920, 1080, 30000, 1001, 20000000>>>>

dlna_profiles_supported_av_wmv9 ==
  LET ids == <<"MED_BASE", "MED_FULL", "MED_PRO", "HIGH_FULL", "HIGH_PRO", "HM_BASE", "SPLL_BASE", "SPML_BASE", "SPML_MP3">>
  IN  [i \in DOMAIN ids |-> Profile("WMV" \o ids[i], MIME_VIDEO_WMV)]

\* WMVHIGH_PRO asks for the same audio as WMVHIGH_FULL, and WMVHM_BASE is in no row: neither is ever chosen.
wmv_profiles_mapping ==
  LET p == dlna_profiles_supported_av_wmv9
      row(profile, vp, ap) == [profile |-> profile, vp |-> vp, ap |-> ap]
  IN  <<row(p[1], "MAIN_MEDIUM", "WMA_BASELINE"), row(p[2], "MAIN_MEDIUM", "WMA_FULL"), row(p[3], "MAIN_MEDIUM", "WMA_PRO"),
        row(p[4], "MAIN_HIGH", "WMA_FULL"), row(p[5], "MAIN_HIGH", "WMA_FULL"), row(p[7], "SIMPLE_LOW", "WMA_BASELINE"),
        row(p[8], "SIMPLE_MEDIUM", "WMA_BASELINE"), row(p[9], "SIMPLE_MEDIUM", "MP3")>>

is_valid_wmv9_video_profile(row, vc) ==
  vc.width <= row[2] /\ vc.height <= row[3] /\ vc.num = row[4] /\ vc.den = row[5] /\ vc.bit_rate <= row[6]

wmv_video_profile_get(vc) ==
  LET row == First(Wmv9Rows, LAMBDA r : is_valid_wmv9_video_profile(r, vc)) IN IF row = NULL THEN INVALID ELSE row[1]

probe_wmv9(ctx, codecs) ==
  LET vp == wmv_video_profile_get(codecs.vc)
      ap == audio_profile_guess(codecs.ac)
      row == First(wmv_profiles_mapping, LAMBDA r : r.vp = vp /\ r.ap = ap)
  IN  IF \/ ~stream_ctx_is_av(codecs) \/ ctx.iformat # "asf" \/ codecs.vc.codec_id # "WMV3"
         \/ vp = INVALID \/ ap = INVALID \/ row = NULL
        THEN NULL ELSE row.profile

=============================================================================
