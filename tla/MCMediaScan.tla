----------------------------- MODULE MCMediaScan -----------------------------
(* Files whose streams have values on both sides of the limits the tables set. *)
EXTENDS MediaScan

Audio(codec, rate, bits, channels, object) ==
  [type |-> "AUDIO", codec_id |-> codec, channels |-> channels, sample_rate |-> rate, bit_rate |-> bits, object_type |-> object]
Video(codec, size, rate, bits) ==
  [type |-> "VIDEO", codec_id |-> codec, width |-> size[1], height |-> size[2], bit_rate |-> bits,
   num |-> rate[1], den |-> rate[2]]

\* An extension, a format and a head that go together.
AudioKinds == {
  <<"ac3", "ac3", "none">>, <<"mp3", "mp3", "none">>, <<"wav", "wav", "none">>, <<"amr", "amr", "none">>,
  <<"aac", "aac", "adts">>, <<"aac", "mov", "adts">>, <<"mp4", "mov", "none">>, <<"3gp", "mov", "none">>,
  <<"asf", "asf", "none">>, <<"txt", NULL, "none">>}
AvKinds == {
  <<"mpg", "mpeg", "pack">>, <<"mpg", "mpeg", "start">>, <<"ts", "mpegts", "sync188">>, <<"ts", "mpegts", "sync192">>,
  <<"mp4", "mov", "none">>, <<"3gp", "mov", "none">>, <<"asf", "asf", "none">>}
ImageKinds == {<<"jpg", "image2", "none">>, <<"png", "image2", "none">>}

Of(kind, bits, streams) ==
  [ext |-> kind[1], iformat |-> kind[2], duration |-> 0, bit_rate |-> bits, streams |-> streams, head |-> kind[3], adts_type |-> 2,
   tags |-> <<>>]

Sounds ==
  {Audio(codec, rate, bits, channels, 0) :
     codec \in {"AC3", "MP3", "MP2", "PCM_S16LE", "AMR_NB", "AMR_WB", "ATRAC3", "WMAV2"}, rate \in {8000, 24000, 48000, 96000},
     bits \in {12200, 128000, 320000}, channels \in {1, 2, 6}}
  \cup {Audio("AAC", rate, bits, channels, object) :
          rate \in {24000, 48000, 96000}, bits \in {128000, 500000}, channels \in {2, 6, 8}, object \in {0, 2, 4, 5, 22, 27}}
AacTrack(rate, channels, object) == Audio("AAC", rate, 128000, channels, object)
Tracks ==
  {Audio("MP2", 44100, 224000, 2, 0), Audio("MP2", 48000, 128000, 2, 0), Audio("MP3", 48000, 128000, 2, 0),
   Audio("AC3", 48000, 192000, 2, 0), Audio("AC3", 48000, 640000, 5, 0), Audio("PCM_S16BE", 48000, 1536000, 2, 0),
   Audio("AMR_NB", 8000, 12200, 1, 0), Audio("AMR_WB", 16000, 24000, 2, 0), Audio("ADPCM_G726", 8000, 32000, 1, 0),
   Audio("ATRAC3", 44100, 128000, 2, 0), Audio("WMAV2", 44100, 128000, 2, 0), Audio("WMAV2", 48000, 320000, 2, 0),
   Audio("WMAV2", 96000, 640000, 6, 0)}
  \cup {AacTrack(48000, 2, 2), AacTrack(48000, 6, 2), AacTrack(48000, 2, 4), AacTrack(96000, 6, 4), AacTrack(96000, 8, 4), AacTrack(24000, 2, 5),
        AacTrack(48000, 6, 5), AacTrack(48000, 2, 22)}
Pictures ==
  {Video(codec, size, rate, bits) :
     codec \in {"MPEG1VIDEO", "MPEG2VIDEO", "MPEG4", "H263", "H264", "WMV3"},
     size \in {<<176, 144>>, <<320, 240>>, <<352, 288>>, <<720, 576>>, <<720, 480>>, <<1280, 720>>},
     rate \in {<<15, 1>>, <<25, 1>>, <<30000, 1001>>}, bits \in {64000, 300000, 1150000, 7000000}}
Stills == {Video(codec, size, <<25, 1>>, 0) : codec \in {"MJPEG", "PNG", "GIF"}, 
            size \in {<<48, 48>>, <<100, 100>>, <<640, 480>>, <<5000, 5000>>}}

Contents ==
  {Of(kind, a.bit_rate, <<a>>) : kind \in AudioKinds, a \in Sounds}
  \cup {Of(kind, v.bit_rate + a.bit_rate, <<v, a>>) : kind \in AvKinds, v \in Pictures, a \in Tracks}
  \cup {Of(kind, 0, <<v>>) : kind \in ImageKinds, v \in Stills}
  \cup {Of(kind, 0, <<>>) : kind \in ImageKinds}

MCFiles == [c \in Contents |-> [length |-> 1, readable |-> TRUE, directory |-> FALSE, media |-> c]]
MCRegistered == [i \in DOMAIN Families |-> i]
=============================================================================
