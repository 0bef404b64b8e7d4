---------------------------- MODULE AudioProfiles ----------------------------
(***************************************************************************)
(* ffmpeg_profiler/audio_*.c: what an audio stream is taken for, and the   *)
(* profiles of files that are audio alone.                                 *)
(***************************************************************************)
EXTENDS Containers

INVALID == "INVALID"

\* Rates that most of the formats share.
CdRates == {32000, 44100, 48000}

-----------------------------------------------------------------------------
(* audio_ac3.c, audio_amr.c, audio_atrac3.c, audio_g726.c, audio_mp2.c *)

ac3 == Profile("AC3", "audio/vnd.dolby.dd-raw")

audio_profile_guess_ac3(ac) ==
  IF ac.codec_id # "AC3" \/ ac.channels > 5 \/ ac.sample_rate \notin CdRates \/ ac.bit_rate < 32000 THEN INVALID
  ELSE IF ac.bit_rate <= 448000 THEN "AC3"
  ELSE IF ac.bit_rate <= 640000 THEN "AC3_EXTENDED" ELSE INVALID

probe_ac3(ctx, codecs) ==
  IF stream_ctx_is_audio(codecs) /\ ctx.iformat = "ac3" /\ audio_profile_guess_ac3(codecs.ac) # INVALID
    THEN ac3 ELSE NULL

dlna_profiles_supported_audio_amr ==
  <<Profile("AMR_3GPP", MIME_AUDIO_MPEG_4), Profile("AMR_3GPP", MIME_AUDIO_3GP), Profile("AMR_WBplus", MIME_AUDIO_3GP)>>

audio_is_valid_amr(ac) ==
  /\ ac.codec_id = "AMR_NB" /\ ac.channels = 1 /\ ac.sample_rate = 8000
  /\ ac.bit_rate \in {4750, 5150, 5900, 6700, 7400, 7950, 10200, 12200}

audio_is_valid_amr_wb(ac) ==
  /\ ac.codec_id = "AMR_WB" /\ ac.sample_rate \in {8000, 16000, 24000, 32000, 48000}
  /\ ac.bit_rate \in 5200..48000 /\ ac.channels <= 2

audio_profile_guess_amr(ac) ==
  IF audio_is_valid_amr(ac) THEN "AMR" ELSE IF audio_is_valid_amr_wb(ac) THEN "AMR_WB" ELSE INVALID

probe_amr(ctx, codecs) ==
  LET st == stream_get_container(ctx)
      amr == dlna_profiles_supported_audio_amr
  IN  IF ~stream_ctx_is_audio(codecs) \/ st \notin {"CT_AMR", "CT_3GP", "CT_MP4"} THEN NULL
      ELSE CASE audio_profile_guess_amr(codecs.ac) = "AMR" -> IF st = "CT_3GP" THEN amr[2] ELSE amr[1]
             [] audio_profile_guess_amr(codecs.ac) = "AMR_WB" -> amr[3]
             [] OTHER -> NULL

atrac3 == Profile("ATRAC3plus", "audio/x-sony-oma")

audio_profile_guess_atrac(ac) == IF ac.codec_id = "ATRAC3" THEN "ATRAC" ELSE INVALID

probe_atrac3(ctx, codecs) ==
  IF stream_ctx_is_audio(codecs) /\ audio_profile_guess_atrac(codecs.ac) = "ATRAC" THEN atrac3 ELSE NULL

audio_profile_guess_g726(ac) ==
  IF ac.codec_id = "ADPCM_G726" /\ ac.channels = 1 /\ ac.sample_rate = 8000 /\ ac.bit_rate = 32000
    THEN "G726" ELSE INVALID

audio_profile_guess_mp2(ac) ==
  IF ac.codec_id = "MP2" /\ ac.channels <= 5 /\ ac.sample_rate \in CdRates /\ ac.bit_rate \in 32000..448000
    THEN "MP2" ELSE INVALID

-----------------------------------------------------------------------------
(* audio_lpcm.c: the profile found is one static copy, overwritten by the next file's *)

dlna_profiles_supported_audio_lpcm == <<Profile("LPCM", NULL), Profile("LPCM_low", NULL)>>

audio_profile_guess_lpcm(ac) ==
  IF ac.codec_id \in {"PCM_S16BE", "PCM_S16LE"} /\ ac.channels <= 2 /\ ac.sample_rate \in 8000..48000
    THEN "LPCM" ELSE INVALID

LpcmMime(ac) == MIME_AUDIO_LPCM \o ";rate=" \o ToString(ac.sample_rate) \o ";channels=" \o ToString(ac.channels)

probe_lpcm(ctx, codecs) ==
  IF ~stream_ctx_is_audio(codecs) \/ audio_profile_guess_lpcm(codecs.ac) # "LPCM" THEN NULL
  ELSE LET p == dlna_profiles_supported_audio_lpcm[IF codecs.ac.sample_rate <= 32000 THEN 2 ELSE 1]
       IN  [p EXCEPT !.mime = LpcmMime(codecs.ac)]

-----------------------------------------------------------------------------
(* audio_mp3.c, audio_wma.c *)

dlna_profiles_supported_audio_mp3 == <<Profile("MP3", "audio/mpeg"), Profile("MP3X", "audio/mpeg")>>

Mp3BitRates ==
  {32000, 40000, 48000, 56000, 64000, 80000, 96000, 112000, 128000, 160000, 192000, 224000, 256000, 320000}

audio_is_valid_mp3_common(ac) == ac.codec_id = "MP3" /\ ac.channels <= 2

audio_is_valid_mp3(ac) == audio_is_valid_mp3_common(ac) /\ ac.sample_rate \in CdRates /\ ac.bit_rate \in Mp3BitRates

audio_is_valid_mp3x(ac) ==
  /\ audio_is_valid_mp3_common(ac) /\ ac.sample_rate \in {16000, 22050, 24000}
  /\ ac.bit_rate \in Mp3BitRates \cup {8000, 16000, 24000}

audio_profile_guess_mp3(ac) ==
  IF audio_is_valid_mp3x(ac) THEN "MP3_EXTENDED" ELSE IF audio_is_valid_mp3(ac) THEN "MP3" ELSE INVALID

probe_mp3(ctx, codecs) ==
  IF ~stream_ctx_is_audio(codecs) \/ ctx.iformat # "mp3" THEN NULL
  ELSE CASE audio_profile_guess_mp3(codecs.ac) = "MP3" -> dlna_profiles_supported_audio_mp3[1]
         [] audio_profile_guess_mp3(codecs.ac) = "MP3_EXTENDED" -> dlna_profiles_supported_audio_mp3[2]
         [] OTHER -> NULL

dlna_profiles_supported_audio_wma ==
  <<Profile("WMABASE", "audio/x-ms-wma"), Profile("WMAFULL", "audio/x-ms-wma"), Profile("WMAPRO", "audio/x-ms-wma")>>

audio_profile_guess_wma(ac) ==
  IF ac.codec_id \notin {"WMAV1", "WMAV2"} THEN INVALID
  ELSE IF ac.sample_rate <= 48000 THEN
    CASE ac.bit_rate <= 193000 /\ ac.channels <= 2 -> "WMA_BASELINE"
      [] ac.bit_rate \in 193001..385000 /\ ac.channels <= 2 -> "WMA_FULL"
      [] OTHER -> INVALID
  ELSE IF ac.sample_rate <= 96000 /\ ac.channels <= 8 /\ ac.bit_rate <= 1500000 THEN "WMA_PRO" ELSE INVALID

probe_wma(ctx, codecs) ==
  LET wma == dlna_profiles_supported_audio_wma
      guess == audio_profile_guess_wma(codecs.ac)
  IN  IF ~stream_ctx_is_audio(codecs) \/ ctx.iformat # "asf" THEN NULL
      ELSE CASE guess = "WMA_BASELINE" -> wma[1] [] guess = "WMA_FULL" -> wma[2] [] guess = "WMA_PRO" -> wma[3]
             [] OTHER -> NULL

-----------------------------------------------------------------------------
(* audio_aac.c *)

\* The profiles by the part of their id that names the stream, with the audio profile it stands for.
AacStreams == <<
  <<"AAC", "AAC", "">>, <<"AAC", "AAC_320", "_320">>, <<"AAC_MULT5", "AAC_MULT5", "">>,
  <<"HEAAC_L2", "AAC_HE_L2", "">>, <<"HEAAC_L3", "AAC_HE_L3", "">>, <<"HEAAC_MULT5", "AAC_HE_MULT5", "">>,
  <<"HEAAC_L2", "AAC_HE_L2_320", "_320">>>>
AacMuxedStreams == <<
  <<"AAC_LTP", "AAC_LTP">>, <<"AAC_LTP_MULT5", "AAC_LTP_MULT5">>, <<"AAC_LTP_MULT7", "AAC_LTP_MULT7">>,
  <<"BSAC", "AAC_BSAC">>, <<"BSAC_MULT5", "AAC_BSAC_MULT5">>>>
AacV2Streams == <<
  <<"HEAACv2_L2", "AAC_HE_V2_L2">>, <<"HEAACv2_L2_320", "AAC_HE_V2_L2_320">>, <<"HEAACv2_L3", "AAC_HE_V2_L3">>,
  <<"HEAACv2_MULT5", "AAC_HE_V2_MULT5">>>>

Aac(id, mime, ct, ap) == [profile |-> Profile(id, mime), ct |-> ct, ap |-> ap]

aac_profiles_mapping ==
  FlattenSeq([i \in DOMAIN AacStreams |->
    LET s == AacStreams[i]
    IN  <<Aac(s[1] \o "_ADTS" \o s[3], MIME_AUDIO_ADTS, "AAC_RAW", s[2]),
          Aac(s[1] \o "_ISO" \o s[3], MIME_AUDIO_MPEG_4, "AAC_MUXED", s[2])>>])
  \o [i \in DOMAIN AacMuxedStreams |->
        Aac(AacMuxedStreams[i][1] \o "_ISO", MIME_AUDIO_MPEG_4, "AAC_MUXED", AacMuxedStreams[i][2])]
  \o FlattenSeq([i \in DOMAIN AacV2Streams |->
       <<Aac(AacV2Streams[i][1], MIME_AUDIO_MPEG_4, "AAC_MUXED", AacV2Streams[i][2]),
         Aac(AacV2Streams[i][1], MIME_AUDIO_ADTS, "AAC_RAW", AacV2Streams[i][2])>>])

\* The types of the profiles with no table of their own.
AAC_LC == 2
AAC_LTP == 4
AAC_HE == 5
AAC_LC_ER == 17
AAC_LTP_ER == 19
AAC_BSAC_ER == 22
AAC_PARAM_ER == 27
AAC_HE_L3 == 31

\* The five highest bits of the extra data; 0 when there is none.
aac_object_type_get(ac) == ac.object_type

\* The first of the limits [rate, channels, bit_rate, profile] that a stream keeps.
Within(ac, limits) ==
  LET l == First(limits, LAMBDA r : ac.sample_rate \in r[1] /\ ac.channels <= r[2] /\ ac.bit_rate <= r[3])
  IN  IF l = NULL THEN INVALID ELSE l[4]

audio_profile_guess_aac_priv(ac, type) ==
  IF ac.codec_id # "AAC" THEN INVALID
  ELSE CASE type \in {AAC_LC, AAC_LC_ER} ->
              Within(ac, <<<<8000..48000, 2, 320000, "AAC_320">>, <<8000..48000, 2, 576000, "AAC">>>>
                         \o (IF ac.channels > 2 THEN <<<<8000..48000, 6, 1440000, "AAC_MULT5">>>> ELSE <<>>))
         [] type \in {AAC_LTP, AAC_LTP_ER} ->
              Within(ac, <<<<8000..48000, 2, 576000, "AAC_LTP">>, <<48001..96000, 6, 2880000, "AAC_LTP_MULT5">>,
                           <<48001..96000, 8, 4032000, "AAC_LTP_MULT7">>>>)
         [] type \in {AAC_HE, AAC_HE_L3} ->
              Within(ac, <<<<8000..24000, 2, 320000, "AAC_HE_L2_320">>, <<8000..24000, 2, 576000, "AAC_HE_L2">>,
                           <<24001..48000, 2, 576000, "AAC_HE_L3">>, <<24001..48000, 6, 1440000, "AAC_HE_MULT5">>>>)
         [] type = AAC_PARAM_ER ->
              Within(ac, <<<<8000..24000, 2, 320000, "AAC_HE_V2_L2_320">>, <<8000..24000, 2, 576000, "AAC_HE_V2_L2">>,
                           <<24001..48000, 2, 576000, "AAC_HE_V2_L3">>, <<24001..48000, 6, 2880000, "AAC_HE_V2_MULT5">>>>)
         [] type = AAC_BSAC_ER ->
              Within(ac, <<<<16000..48000, 2, 128000, "AAC_BSAC">>, <<16000..48000, 6, 128000, "AAC_BSAC_MULT5">>>>)
         [] OTHER -> INVALID

audio_profile_guess_aac(ac) == audio_profile_guess_aac_priv(ac, aac_object_type_get(ac))

\* The two bits after the header's first two bytes, whether or not the file has such a header.
aac_adts_object_type_get(ctx) == ctx.adts_type

aac_get_format(ctx) == IF ctx.head = "adts" THEN "AAC_RAW" ELSE "AAC_MUXED"

\* The comparison is the other way round: it is files of other formats whose header is read.
probe_mpeg4(ctx, codecs) ==
  LET other == ctx.iformat # "aac"
      ct == IF other THEN aac_get_format(ctx) ELSE "AAC_MUXED"
      ap == IF other THEN audio_profile_guess_aac_priv(codecs.ac, aac_adts_object_type_get(ctx))
            ELSE audio_profile_guess_aac(codecs.ac)
      row == First(aac_profiles_mapping, LAMBDA r : r.ct = ct /\ r.ap = ap)
  IN  IF ~stream_ctx_is_audio(codecs) \/ ap = INVALID \/ row = NULL THEN NULL ELSE row.profile

\* The list has been left behind by the mapping.
dlna_profiles_supported_audio_mpeg4_Short ==
  LET listed == SelectSeq(aac_profiles_mapping, LAMBDA r : r.ct = "AAC_MUXED") IN [i \in DOMAIN listed |-> listed[i].profile]

dlna_profiles_supported_audio_mpeg4 == [i \in DOMAIN aac_profiles_mapping |-> aac_profiles_mapping[i].profile]

-----------------------------------------------------------------------------

\* profiles.c: the first of the formats that knows the stream.
audio_profile_guess(ac) ==
  LET guess == First(<<audio_profile_guess_aac(ac), audio_profile_guess_ac3(ac), audio_profile_guess_amr(ac),
                       audio_profile_guess_atrac(ac), audio_profile_guess_g726(ac), audio_profile_guess_lpcm(ac),
                       audio_profile_guess_mp2(ac), audio_profile_guess_mp3(ac), audio_profile_guess_wma(ac)>>,
                     LAMBDA p : p # INVALID)
  IN  IF guess = NULL THEN INVALID ELSE guess

=============================================================================
