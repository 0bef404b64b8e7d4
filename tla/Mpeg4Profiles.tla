---------------------------- MODULE Mpeg4Profiles ----------------------------
(***************************************************************************)
(* ffmpeg_profiler/av_mpeg4_part2.c and av_mpeg4_part10.c: the profiles of *)
(* MPEG-4 and of H.264 video.  The id of a profile is made of the names of *)
(* its container, its video and its audio.                                 *)
(***************************************************************************)
EXTENDS VideoProfiles

Entry(profile, st, vp, ap) == [profile |-> profile, st |-> st, vp |-> vp, ap |-> ap]
InKinds(id, vp, ap) == [k \in 1..3 |-> Entry(Ts(id)[k], TsKinds[k], vp, ap)]

\* A stream whose bit rate is not known has what the audio leaves.
VideoRate(ctx, codecs) ==
  IF codecs.vc.bit_rate # 0 THEN codecs.vc.bit_rate ELSE ctx.bit_rate - codecs.ac.bit_rate

AudioOf(codecs) ==
  LET ap == audio_profile_guess(codecs.ac)
  IN  CASE ap = "AAC_320" -> "AAC" [] ap = "AAC_HE_L2_320" -> "AAC_HE_L2" [] OTHER -> ap

Chosen(mapping, st, vp, ap) ==
  LET row == First(mapping, LAMBDA r : r.st = st /\ r.vp = vp /\ r.ap = ap)
  IN  IF vp = INVALID \/ ap = INVALID \/ row = NULL THEN NULL ELSE row.profile

-----------------------------------------------------------------------------
(* av_mpeg4_part2.c *)

Part2Audio ==
  [AAC |-> "AAC", HEAAC |-> "AAC_HE_L2", HEAAC_MULT5 |-> "AAC_HE_MULT5", ATRAC3plus |-> "ATRAC", AAC_LTP |-> "AAC_LTP",
   AMR |-> "AMR", AMR_WBplus |-> "AMR_WB", MPEG1_L3 |-> "MP3", MPEG2_L2 |-> "MP2", AC3 |-> "AC3", G726 |-> "G726"]
Part2Video ==
  [SP |-> "SP_L3", SP_L2 |-> "SP_L2", SP_VGA |-> "SP_L3_VGA", ASP |-> "ASP_L5", ASP_L5_SO |-> "ASP_L5",
   ASP_L4_SO |-> "ASP_L4", CO |-> "ASP_L4", SP_L0B |-> "SP_L0B"]

\* Two profiles of transport streams are named otherwise than their kin.
Part2Id(st, vp, ap) ==
  IF st = "TS" /\ ap = "AC3" /\ vp \in {"SP", "ASP"} THEN "MPEG4_P2_TS_" \o vp \o "_AC3_L3"
  ELSE "MPEG4_P2_" \o st \o "_" \o vp \o "_" \o ap
Part2(st, ct, mime, row) ==
  Entry(Profile(Part2Id(st, row[1], row[2]), mime), ct, Part2Video[row[1]], Part2Audio[row[2]])

mpeg4_p2_mp4 ==
  LET rows == <<<<"SP", "AAC">>, <<"SP", "HEAAC">>, <<"SP", "ATRAC3plus">>, <<"SP", "AAC_LTP">>, <<"SP_L2", "AAC">>,
                <<"SP_L2", "AMR">>, <<"SP_VGA", "AAC">>, <<"SP_VGA", "HEAAC">>, <<"ASP", "AAC">>, <<"ASP", "HEAAC">>,
                <<"ASP", "HEAAC_MULT5">>, <<"ASP", "ATRAC3plus">>, <<"ASP_L5_SO", "AAC">>, <<"ASP_L5_SO", "HEAAC">>,
                <<"ASP_L5_SO", "HEAAC_MULT5">>, <<"ASP_L4_SO", "AAC">>, <<"ASP_L4_SO", "HEAAC">>,
                <<"ASP_L4_SO", "HEAAC_MULT5">>>>
      h263(ap) == Entry(Profile("MPEG4_H263_MP4_P0_L10_" \o ap, MIME_VIDEO_3GP), "CT_MP4", "H263", Part2Audio[ap])
  IN  [i \in DOMAIN rows |-> Part2("MP4", "CT_MP4", MIME_VIDEO_MPEG_4, rows[i])] \o <<h263("AAC"), h263("AAC_LTP")>>

mpeg4_p2_ts ==
  LET rows == <<<<"SP", "AAC">>, <<"SP", "MPEG1_L3">>, <<"SP", "AC3">>, <<"SP", "MPEG2_L2">>, <<"ASP", "AAC">>,
                <<"ASP", "MPEG1_L3">>, <<"ASP", "AC3">>, <<"CO", "AC3">>, <<"CO", "MPEG2_L2">>>>
      plain(row) == Part2Id("TS", row[1], row[2])
      base(row) == "MPEG4_P2_TS_" \o row[1] \o "_" \o row[2]
      kinds(row) == [InKinds(base(row), Part2Video[row[1]], Part2Audio[row[2]]) EXCEPT ![1].profile.id = plain(row)]
  IN  FlattenSeq([i \in DOMAIN rows |-> kinds(rows[i])])

mpeg4_p2_asf ==
  LET rows == <<<<"SP", "G726">>, <<"ASP_L5_SO", "G726">>, <<"ASP_L4_SO", "G726">>>>
  IN  [i \in DOMAIN rows |-> Part2("ASF", "CT_ASF", MIME_VIDEO_ASF, rows[i])]

mpeg4_p2_3gpp ==
  LET h263(name, ap) == Entry(Profile("MPEG4_H263_3GPP_" \o name \o "_L10_" \o ap, MIME_VIDEO_3GP), "CT_3GP", "H263", Part2Audio[ap])
  IN  <<h263("P0", "AMR_WBplus"), Part2("3GPP", "CT_3GP", MIME_VIDEO_3GP, <<"SP_L0B", "AAC">>),
        Part2("3GPP", "CT_3GP", MIME_VIDEO_3GP, <<"SP_L0B", "AMR">>), h263("P3", "AMR")>>

mpeg4_profiles_mapping == mpeg4_p2_mp4 \o mpeg4_p2_ts \o mpeg4_p2_asf \o mpeg4_p2_3gpp

mpeg4_get_vcodec(vc) ==
  CASE vc.codec_id \in {"H263", "H263I", "H263P"} -> "H263"
    [] vc.codec_id \in {"MPEG4", "MSMPEG4V1", "MSMPEG4V2", "MSMPEG4V3"} -> "P2"
    [] OTHER -> INVALID

\* Sizes with the highest frame rate of each.
At(fps, sizes) == {<<s[1], s[2], fps>> : s \in sizes}
profile_h263_res == At(15, {<<176, 144>>, <<128, 96>>})
profile_p2_sp_l0b_res == At(15, {<<176, 144>>, <<128, 96>>})
profile_p2_sp_l2_res == At(15, {<<352, 288>>, <<320, 240>>, <<320, 180>>}) \cup At(30, {<<176, 144>>, <<128, 96>>})
profile_p2_sp_l3_vga_res == At(30, {<<640, 480>>, <<640, 360>>})
profile_p2_sp_l3_co_res ==
  At(30, {<<352, 288>>, <<352, 240>>, <<320, 240>>, <<320, 180>>, <<240, 180>>, <<208, 160>>, <<176, 144>>, <<176, 120>>,
          <<160, 120>>, <<160, 112>>, <<160, 90>>, <<128, 96>>})
profile_p2_asp_l4_res == profile_p2_sp_l3_co_res \cup At(30, {<<352, 576>>, <<352, 480>>})
profile_p2_asp_l5_res ==
  profile_p2_asp_l4_res
  \cup At(30, ({720, 704, 640, 544, 480} \X {480}) \cup ({720, 704, 544, 480} \X {576})
              \cup {<<640, 360>>, <<480, 360>>, <<480, 270>>})

is_valid_video_profile(res, vc) ==
  \E r \in res : r[1] = vc.width /\ r[2] = vc.height /\ vc.num \div vc.den <= r[3]

\* The tables tried at a bit rate, one rate after the other.
mpeg4_video_get_profile(vctype, vc, bit_rate) ==
  LET try(res, vp) == IF is_valid_video_profile(res, vc) THEN vp ELSE INVALID
  IN  CASE vctype = "H263" -> IF bit_rate > 64000 THEN INVALID ELSE try(profile_h263_res, "H263")
        [] bit_rate <= 128000 ->
             IF is_valid_video_profile(profile_p2_sp_l0b_res, vc) THEN "SP_L0B" ELSE try(profile_p2_sp_l2_res, "SP_L2")
        [] bit_rate \in 128001..384000 -> try(profile_p2_sp_l3_co_res, "SP_L3")
        [] bit_rate \in 384001..2000000 -> try(profile_p2_sp_l3_co_res \cup profile_p2_asp_l4_res, "ASP_L4")
        [] bit_rate \in 2000001..3000000 -> try(profile_p2_sp_l3_vga_res, "SP_L3_VGA")
        [] bit_rate \in 3000001..8000000 -> try(profile_p2_asp_l5_res, "ASP_L5")
        [] OTHER -> INVALID

probe_mpeg4_part2(ctx, codecs) ==
  LET vctype == mpeg4_get_vcodec(codecs.vc)
      st == stream_get_container(ctx)
      vp == mpeg4_video_get_profile(vctype, codecs.vc, VideoRate(ctx, codecs))
  IN  IF \/ ~stream_ctx_is_av(codecs) \/ vctype = INVALID
         \/ st \notin {"CT_ASF", "CT_3GP", "CT_MP4"} \cup Range(TsKinds)
        THEN NULL ELSE Chosen(mpeg4_profiles_mapping, st, vp, AudioOf(codecs))

-----------------------------------------------------------------------------
(* av_mpeg4_part10.c *)

AvcAudio ==
  [AAC |-> "AAC", AAC_MULT5 |-> "AAC_MULT5", HEAAC_L2 |-> "AAC_HE_L2", HEAAC |-> "AAC_HE_L2", MPEG1_L3 |-> "MP3",
   AC3 |-> "AC3", AAC_LTP |-> "AAC_LTP", AAC_LTP_MULT5 |-> "AAC_LTP_MULT5", AAC_LTP_MULT7 |-> "AAC_LTP_MULT7",
   ATRAC3plus |-> "ATRAC", BSAC |-> "AAC_BSAC", BSAC_MULT5 |-> "AAC_BSAC_MULT5", AMR |-> "AMR", AMR_WBplus |-> "AMR_WB"]

\* A limit on the bit rate ends the id: 520, 540 or 940 kbit/s.
Limit(limit) == IF limit = "" THEN "" ELSE "_" \o limit
AvcId(st, row) == "AVC_" \o st \o "_" \o row[1] \o "_" \o row[2] \o Limit(row[3])
AvcVideo(row) == (IF row[1] = "BL_L1B_QCIF15" THEN "BL_L1B_QCIF" ELSE row[1]) \o Limit(row[3])
Avc(st, ct, mime, row) == Entry(Profile(AvcId(st, row), mime), ct, AvcVideo(row), AvcAudio[row[2]])
AvcTs(vp, audios) ==
  FlattenSeq([i \in DOMAIN audios |->
    LET row == <<vp, audios[i][1], audios[i][2]>> IN InKinds(AvcId("TS", row), AvcVideo(row), AvcAudio[row[2]])])

avc_mp4 ==
  LET rows ==
        <<<<"MP_SD", "AAC_MULT5", "">>, <<"MP_SD", "HEAAC_L2", "">>, <<"MP_SD", "MPEG1_L3", "">>, <<"MP_SD", "AC3", "">>,
          <<"MP_SD", "AAC_LTP", "">>, <<"MP_SD", "AAC_LTP_MULT5", "">>, <<"MP_SD", "AAC_LTP_MULT7", "">>,
          <<"MP_SD", "ATRAC3plus", "">>, <<"BL_L3L_SD", "AAC", "">>, <<"BL_L3L_SD", "HEAAC", "">>,
          <<"BL_L3_SD", "AAC", "">>, <<"MP_SD", "BSAC", "">>, <<"BL_CIF30", "AAC_MULT5", "">>,
          <<"BL_CIF30", "HEAAC_L2", "">>, <<"BL_CIF30", "MPEG1_L3", "">>, <<"BL_CIF30", "AC3", "">>,
          <<"BL_CIF30", "AAC_LTP", "">>, <<"BL_CIF30", "AAC_LTP_MULT5", "">>, <<"BL_L2_CIF30", "AAC", "">>,
          <<"BL_CIF30", "BSAC", "">>, <<"BL_CIF30", "BSAC_MULT5", "">>, <<"BL_CIF15", "HEAAC", "">>,
          <<"BL_CIF15", "AMR", "">>, <<"BL_CIF15", "AAC", "">>, <<"BL_CIF15", "AAC", "520">>,
          <<"BL_CIF15", "AAC_LTP", "">>, <<"BL_CIF15", "AAC_LTP", "520">>, <<"BL_CIF15", "BSAC", "">>,
          <<"BL_L12_CIF15", "HEAAC", "">>, <<"BL_L1B_QCIF15", "HEAAC", "">>>>
  IN  [i \in DOMAIN rows |-> Avc("MP4", "CT_MP4", MIME_VIDEO_MPEG_4, rows[i])]

avc_ts_mp_sd ==
  AvcTs("MP_SD", <<<<"AAC_MULT5", "">>, <<"HEAAC_L2", "">>, <<"MPEG1_L3", "">>, <<"AC3", "">>, <<"AAC_LTP", "">>,
                   <<"AAC_LTP_MULT5", "">>, <<"AAC_LTP_MULT7", "">>, <<"BSAC", "">>>>)

avc_ts_bl_cif30 ==
  AvcTs("BL_CIF30", <<<<"AAC_MULT5", "">>, <<"HEAAC_L2", "">>, <<"MPEG1_L3", "">>, <<"AC3", "">>, <<"AAC_LTP", "">>,
                      <<"AAC_LTP_MULT5", "">>, <<"AAC", "940">>>>)

avc_ts_mp_hd ==
  AvcTs("MP_HD", <<<<"AAC_MULT5", "">>, <<"HEAAC_L2", "">>, <<"MPEG1_L3", "">>, <<"AC3", "">>, <<"AAC", "">>,
                   <<"AAC_LTP", "">>, <<"AAC_LTP_MULT5", "">>, <<"AAC_LTP_MULT7", "">>>>)

avc_ts_bl_cif15 == AvcTs("BL_CIF15", <<<<"AAC", "">>, <<"AAC", "540">>, <<"AAC_LTP", "">>, <<"BSAC", "">>>>)

avc_3gpp ==
  LET rows == <<<<"BL_CIF30", "AMR_WBplus", "">>, <<"BL_CIF15", "AMR_WBplus", "">>, <<"BL_QCIF15", "AAC", "">>,
                <<"BL_QCIF15", "AAC_LTP", "">>, <<"BL_QCIF15", "HEAAC", "">>, <<"BL_QCIF15", "AMR_WBplus", "">>,
                <<"BL_QCIF15", "AMR", "">>>>
  IN  [i \in DOMAIN rows |-> Avc("3GPP", "CT_3GP", MIME_VIDEO_3GP, rows[i])]

avc_profiles_mapping ==
  avc_mp4 \o avc_ts_mp_sd \o avc_ts_bl_cif30 \o avc_ts_mp_hd \o avc_ts_bl_cif15 \o avc_3gpp

profile_cif_res ==
  {<<352, 288>>, <<352, 240>>, <<320, 240>>, <<320, 180>>, <<240, 180>>, <<240, 135>>, <<208, 160>>, <<176, 144>>,
   <<176, 120>>, <<160, 120>>, <<160, 112>>, <<160, 90>>, <<128, 96>>}
profile_mp_l3_sd_res == {<<720, 576>>, <<720, 480>>, <<640, 480>>, <<640, 360>>}
profile_mp_sd_res ==
  ({720, 704, 544, 480, 352} \X {576, 480}) \cup {<<640, 480>>, <<640, 360>>, <<480, 360>>, <<480, 270>>}
  \cup (profile_cif_res \ {<<240, 135>>})
profile_mp_hd_res == {<<1920, 1080>>, <<1920, 1152>>, <<1920, 540>>, <<1280, 720>>}

\* A frame rate whose one part is to be both 15 and 1 leaves BL_QCIF15 to nobody.
avc_video_get_profile(ctx, vc, bit_rate) ==
  LET size == <<vc.width, vc.height>>
      cif == size \in profile_cif_res
      all == ctx.bit_rate
      hd == \/ size \in profile_mp_hd_res
            \/ vc.width \in {1920, 1280, 720} \/ vc.height \in {1080, 720, 480}
      tests ==
        <<<<bit_rate <= 384000 /\ all <= 600000 /\ size = <<320, 240>>, "BL_L12_CIF15">>,
          <<cif /\ bit_rate <= 128000 /\ all <= 256000 /\ vc.num = 15 /\ vc.num = 1, "BL_QCIF15">>,
          <<cif /\ bit_rate <= 128000 /\ all <= 256000, "BL_L1B_QCIF">>,
          <<cif /\ all <= 520000, "BL_CIF15_520">>,
          <<cif /\ all <= 540000, "BL_CIF15_540">>,
          <<cif /\ bit_rate <= 384000 /\ all <= 600000, "BL_CIF15">>,
          <<cif /\ all <= 940000, "BL_CIF30_940">>,
          <<cif /\ all <= 1300000, "BL_L2_CIF30">>,
          <<cif /\ bit_rate <= 2000000 /\ all <= 3000000, "BL_CIF30">>,
          <<bit_rate <= 4000000 /\ size \in profile_mp_l3_sd_res, "BL_L3_SD">>,
          <<bit_rate <= 10000000 /\ size \in profile_mp_sd_res, "MP_SD">>,
          <<bit_rate <= 20000000 /\ hd, "MP_HD">>,
          <<TRUE, INVALID>>>>
  IN  First(tests, LAMBDA t : t[1])[2]

probe_avc(ctx, codecs) ==
  LET st == stream_get_container(ctx)
      vp == avc_video_get_profile(ctx, codecs.vc, VideoRate(ctx, codecs))
  IN  IF \/ ~stream_ctx_is_av(codecs) \/ codecs.vc.codec_id # "H264"
         \/ st \notin {"CT_3GP", "CT_MP4"} \cup Range(TsKinds)
        THEN NULL ELSE Chosen(avc_profiles_mapping, st, vp, AudioOf(codecs))

=============================================================================
