--------------------------- MODULE MCVirtualAudio ---------------------------
(* Small instances of the Foley streams: a plain type with two sounds, a    *)
(* type played one at a time that the pause mutes, and a looping type.      *)
EXTENDS VirtualAudio

MCPitchRate == <<<<1, 1>>, <<3, 2>>>>

Durations == [chomp |-> 3, splat |-> 5, hum |-> 3]

MCSoundscapes ==
    {[types |-> {"eat"}, flags |-> [eat |-> {"dont_repeat", "mute_on_pause"}],
      sounds |-> [eat |-> <<"chomp", "splat">>], duration |-> Durations],
     [types |-> {"eat", "hum"},
      flags |-> [eat |-> {"one_at_a_time", "mute_on_pause", "uses_music_volume"}, hum |-> {"loop"}],
      sounds |-> [eat |-> <<"splat">>, hum |-> <<"hum">>], duration |-> Durations],
     [types |-> {"hum"}, flags |-> [hum |-> {"loop", "mute_on_pause"}],
      sounds |-> [hum |-> <<"hum", "chomp">>], duration |-> Durations]}
=============================================================================
