--------------------------- MODULE StreamProfiles ---------------------------
(***************************************************************************)
(* ffmpeg_profiler/profiles.c: the registered families of profiles, in the *)
(* order in which a file is put to them.                                   *)
(***************************************************************************)
EXTENDS Mpeg4Profiles

CONSTANTS
  CRASH,        \* what a function returns that does not: the process ends in it
  Registered    \* the families the application registers, an increasing sequence of positions in Families

\* The profiles of these families are those of their tables: an id is in a list once, so that its order does not matter.
Entries(mapping) == [i \in DOMAIN mapping |-> mapping[i].profile]
dlna_profiles_supported_image_jpeg == Entries(jpeg_profiles_mapping)
dlna_profiles_supported_image_png == Entries(png_profiles_mapping)
dlna_profiles_supported_av_mpeg4_part2 == Entries(mpeg4_profiles_mapping)
dlna_profiles_supported_av_mpeg4_part10 == Entries(avc_profiles_mapping)

Family(id, class, extensions, profiles) ==
  [id |-> id, class |-> class, extensions |-> extensions, profiles |-> profiles]

Mpeg4Ext == {"mov", "hdmov", "mp4", "3gp", "3gpp", "mpg", "mpeg", "mpe", "mp2t", "ts"}

Families == <<
  Family("jpeg", "IMAGE", {"jpg", "jpe", "jpeg"}, dlna_profiles_supported_image_jpeg),
  Family("png", "IMAGE", {"png"}, dlna_profiles_supported_image_png),
  Family("ac3", "AUDIO", {"ac3"}, <<ac3>>),
  Family("amr", "AUDIO", {"amr", "3gp", "mp4"}, dlna_profiles_supported_audio_amr),
  Family("atrac3", "AUDIO", {"at3p", "acm", "wav"}, <<atrac3>>),
  Family("lpcm", "AUDIO", {"pcm", "lpcm", "wav", "aiff"}, dlna_profiles_supported_audio_lpcm),
  Family("mp3", "AUDIO", {"mp3"}, dlna_profiles_supported_audio_mp3),
  Family("mpeg4", "AUDIO", {"aac", "adts", "3gp", "mp4", "mov", "qt", "m4a"}, dlna_profiles_supported_audio_mpeg4),
  Family("wma", "AUDIO", {"wma", "asf"}, dlna_profiles_supported_audio_wma),
  Family("mpeg1", "AV", {"mpg", "mpeg", "mpe", "m1v"}, <<mpeg1>>),
  Family("mpeg2", "AV", {"mpg", "mpeg", "mpe", "m2v", "mp2p", "mp2t", "ts", "ps", "pes"}, dlna_profiles_supported_av_mpeg2),
  Family("part2", "AV", Mpeg4Ext \cup {"asf"}, dlna_profiles_supported_av_mpeg4_part2),
  Family("part10", "AV", Mpeg4Ext, dlna_profiles_supported_av_mpeg4_part10),
  Family("wmv9", "AV", {"asf", "wmv"}, dlna_profiles_supported_av_wmv9)>>

Probe(family, ctx, codecs) ==
  CASE family.id = "jpeg" -> probe_jpeg(ctx, codecs)     [] family.id = "png" -> probe_png(ctx, codecs)
    [] family.id = "ac3" -> probe_ac3(ctx, codecs)       [] family.id = "amr" -> probe_amr(ctx, codecs)
    [] family.id = "atrac3" -> probe_atrac3(ctx, codecs) [] family.id = "lpcm" -> probe_lpcm(ctx, codecs)
    [] family.id = "mp3" -> probe_mp3(ctx, codecs)       [] family.id = "mpeg4" -> probe_mpeg4(ctx, codecs)
    [] family.id = "wma" -> probe_wma(ctx, codecs)       [] family.id = "mpeg1" -> probe_mpeg1(ctx, codecs)
    [] family.id = "mpeg2" -> probe_mpeg2(ctx, codecs)   [] family.id = "part2" -> probe_mpeg4_part2(ctx, codecs)
    [] family.id = "part10" -> probe_avc(ctx, codecs)    [] family.id = "wmv9" -> probe_wmv9(ctx, codecs)

\* A family is registered once, at the end of the list.
register_profile(list, family) == IF \E i \in DOMAIN list : list[i].id = family.id THEN list ELSE Append(list, family)

ffmpeg_profiler_register_media_profile(list, i) ==
  IF i \in DOMAIN Families THEN register_profile(list, Families[i]) ELSE list

ffmpeg_profiler_register_all_media_profiles(list) == FoldLeft(register_profile, list, Families)

RegisteredFamilies == FoldLeft(ffmpeg_profiler_register_media_profile, <<>>, Registered)

is_profile_registered(id) == \E i \in DOMAIN RegisteredFamilies : RegisteredFamilies[i].id = id

\* No text twice.
dlna_list_add(list, element) == IF element \in Range(list) THEN list ELSE Append(list, element)

\* The types announced for a family: not those of all its profiles.
ffmpeg_profiler_get_supported_mime_types ==
  LET types ==
        <<<<"jpeg", <<"image/jpeg">>>>, <<"png", <<"image/png">>>>, <<"ac3", <<"audio/vnd.dolby.dd-raw">>>>,
          <<"amr", <<MIME_AUDIO_MPEG_4, MIME_AUDIO_3GP>>>>, <<"atrac3", <<"audio/x-sony-oma">>>>,
          <<"lpcm", <<MIME_AUDIO_LPCM>>>>, <<"mp3", <<"audio/mpeg">>>>,
          <<"mpeg4", <<MIME_AUDIO_ADTS, MIME_AUDIO_MPEG_4>>>>, <<"wma", <<"audio/x-ms-wma">>>>,
          <<"mpeg1", <<MIME_VIDEO_MPEG>>>>, <<"mpeg2", <<MIME_VIDEO_MPEG, MIME_VIDEO_MPEG_TS>>>>,
          <<"part2", <<MIME_VIDEO_MPEG, MIME_VIDEO_MPEG_4, MIME_VIDEO_MPEG_TS>>>>,
          <<"part10", <<MIME_VIDEO_MPEG, MIME_VIDEO_MPEG_4, MIME_VIDEO_MPEG_TS>>>>, <<"wmv9", <<MIME_VIDEO_WMV>>>>>>
      here == SelectSeq(types, LAMBDA t : is_profile_registered(t[1]))
  IN  FoldLeft(dlna_list_add, <<>>, FlattenSeq([i \in DOMAIN here |-> here[i][2]]))

match_file_extension(ext, extensions) == ext \in extensions

\* A profile takes the class of its family.
InFamily(family, profile) == IF profile = NULL THEN NULL ELSE [profile EXCEPT !.class = family.class]

\* A profile of that id in a registered family.
ffmpeg_profiler_get_media_profile(profileid) ==
  LET of(family) == [i \in DOMAIN family.profiles |-> InFamily(family, family.profiles[i])]
      all == FlattenSeq([i \in DOMAIN RegisteredFamilies |-> of(RegisteredFamilies[i])])
  IN  First(all, LAMBDA p : p.id = profileid)

\* What libavformat makes of a file; a file that no family knows is the end of the process.
ffmpeg_profiler_guess_media_profile(ctx) ==
  LET codecs == av_profile_get_codecs(ctx)
      families == SelectSeq(RegisteredFamilies, LAMBDA f : match_file_extension(ctx.ext, f.extensions))
      guesses == [i \in DOMAIN families |-> InFamily(families[i], Probe(families[i], ctx, codecs))]
  IN  IF ctx.iformat = NULL \/ codecs = NULL THEN NULL
      ELSE First(Append(guesses, CRASH), LAMBDA guess : guess # NULL)

\* A text in an array of characters: blanks, and then what it says.
Text(text) == [blanks |-> 0, text |-> text]

TwoDigits(n) == (IF n < 10 THEN "0" ELSE "") \o ToString(n)

\* What is known of the streams, the duration in whole seconds; bps is left out.
item_get_properties(ctx) ==
  LET codecs == av_profile_get_codecs(ctx)
      hours == ctx.duration \div 3600
      min == (ctx.duration - hours * 3600) \div 60
      sec == ctx.duration - hours * 3600 - min * 60
      shown == IF hours = 0 THEN "" ELSE ToString(hours)
  IN  [duration |-> Text(shown \o ":" \o TwoDigits(min) \o ":" \o TwoDigits(sec) \o "."),
       bitrate |-> ctx.bit_rate \div 8,
       sample_frequency |-> IF codecs.ac = NULL THEN 0 ELSE codecs.ac.sample_rate,
       channels |-> IF codecs.ac = NULL THEN 0 ELSE codecs.ac.channels,
       resolution |-> Text(IF codecs.vc = NULL THEN "" ELSE ToString(codecs.vc.width) \o "x" \o ToString(codecs.vc.height))]

\* The tags are a function of the names of those the file has; one that is missing leaves its text empty.
item_get_metadata(ctx) ==
  LET tag(name) == IF name \in DOMAIN ctx.tags THEN ctx.tags[name] ELSE ""
  IN  [title |-> tag("title"), author |-> IF "author" \in DOMAIN ctx.tags THEN tag("author") ELSE tag("artist"),
       album |-> tag("album"), genre |-> tag("genre")]

=============================================================================
