------------------------------ MODULE Settings ------------------------------
(* How boot.conf becomes settings and entries: the early pass that looks for *)
(* the log and the checkpoint keys, the parser with its entry blocks, the    *)
(* keys of config_keys.c, and the theme applied over them.  A line is        *)
(* [kind, key, value]: a "key" line, a "header" (key: its keyword) without   *)
(* or an "open" one with a brace, "close", "blank", or "text" (a comment, or *)
(* anything the parser skips).  A setting absent from the function keeps the *)
(* default of config_parse.                                                  *)
EXTENDS Integers, Sequences, FiniteSets, SequencesExt

CONSTANTS
    Beginnings,      \* a value -> the words it starts with, as far as keys ask
    Number,        \* a value -> its leading digits as a number, else 0
    Colors,        \* values of six hex digits
    Roles,         \* names of accent roles
    Hashes,        \* values of 64 hex digits
    Hotspots,      \* "X,Y" values within the largest pointer
    Sizes,         \* "WxH" values
    KeyNames,      \* values autoboot_key takes
    Cmdline,       \* a value -> the words of the command line it holds
    WindowsPaths,  \* paths with bootmgfw or \Microsoft\ in them
    LoaderPaths,   \* paths below \EFI\BOOT\, or of a known boot loader
    Nothing

Starts(v, words) == Beginnings[v] \cap words # {}
Lower(v) == Starts(v, {"1", "t", "y"})
AnyCase(v) == Starts(v, {"1", "t", "T", "y", "Y"})
Least(a, b) == IF a < b THEN a ELSE b
Clamped(n, lo, hi) == IF n < lo THEN lo ELSE Least(n, hi)
PathOf(v) == IF v = "" THEN Nothing ELSE v
Unchanged == <<>>
Set(field, value) == [f \in {field} |-> value]
new ++ old ==
    [f \in DOMAIN new \cup DOMAIN old |-> IF f \in DOMAIN new THEN new[f] ELSE old[f]]
(* A sequence taken element by element.                                      *)
Folded(Op(_, _), start, seq) ==
    LET upto[n \in 0..Len(seq)] == IF n = 0 THEN start ELSE Op(upto[n - 1], seq[n])
    IN  upto[Len(seq)]

(* parse_spec: a colour, a role, on or off; anything else is refused.        *)
SpecOf(v) ==
    IF v = "" THEN "invalid"
    ELSE IF v \in Colors THEN "color"
    ELSE IF v \in Roles THEN "role"
    ELSE IF v = "on" \/ AnyCase(v) THEN "on"
    ELSE IF v = "off" \/ Starts(v, {"0", "f", "n", "F", "N"}) THEN "off"
    ELSE "invalid"
Accent(spec, enabled, v) ==
    IF SpecOf(v) = "invalid" THEN Unchanged
    ELSE Set(spec, [mode |-> SpecOf(v), of |-> v]) ++ Set(enabled, SpecOf(v) # "off")
Tint(spec, color, v) ==
    IF SpecOf(v) = "invalid" THEN Unchanged
    ELSE Set(spec, [mode |-> SpecOf(v), of |-> v])
         ++ (IF SpecOf(v) = "color" THEN Set(color, v) ELSE Unchanged)
OwnTint(spec, color, has, v) ==
    Tint(spec, color, v)
    ++ (IF SpecOf(v) = "invalid" THEN Unchanged ELSE Set(has, SpecOf(v) = "color"))
OneOf(field, table, v) ==
    IF \E w \in DOMAIN table : v \in table[w]
    THEN Set(field, CHOOSE w \in DOMAIN table : v \in table[w]) ELSE Unchanged

-----------------------------------------------------------------------------
(* apply_global, in the order of its branches.  Aliases first.               *)
Alias ==
    [text_mode |-> "text_menu", options |-> "cmdline", names |-> "show_names",
     centre_info |-> "center_info", startup_text |-> "checkpoints",
     remember |-> "remember_last", selfheal_order |-> "boot_order",
     recovery |-> "recovery_entries", pointer |-> "mouse",
     pointer_speed |-> "mouse_speed", cursor_image |-> "cursor",
     hotplug_scan_existing |-> "scan_existing", scan_mode |-> "scan",
     deepscan |-> "deep_scan", quickscan |-> "quick_scan"]
LateAlias ==
    [boot_log |-> "log", file_log |-> "log", corner_radius |-> "box_radius",
     logo_color |-> "accent_logo", accent_logo_color |-> "accent_logo",
     intro_image |-> "intro_media", background_color |-> "bg_color",
     show_clock |-> "clock", clock_px |-> "clock_size", clock_pos |-> "clock_position",
     clock_ntp |-> "clock_sync", screensaver_timeout |-> "screensaver_delay",
     screensaver_blank_delay |-> "screensaver_blank", measure |-> "tpm",
     loader_interface |-> "loader_vars"]
Named(key) ==
    IF key \in DOMAIN Alias THEN Alias[key]
    ELSE IF key \in DOMAIN LateAlias THEN LateAlias[key] ELSE key

Marks == [show_names |-> "show_names_set", center_info |-> "center_info_set"]
Specs == [title_color |-> "sp_title", name_color |-> "sp_name", highlight_color |-> "sp_highlight",
          underline_color |-> "sp_underline", shutdown_color |-> "sp_shutdown",
          reboot_color |-> "sp_reboot", firmware_color |-> "sp_firmware",
          accent_icons |-> "sp_icons", accent_underline |-> "sp_under",
          accent_text |-> "sp_text", accent_os_icons |-> "sp_os_icons"]
Owned == [underline_color |-> "has_underline_color", shutdown_color |-> "has_shutdown_color",
          reboot_color |-> "has_reboot_color", firmware_color |-> "has_firmware_color"]
BootSwitches ==
    {"exclude_self", "quiet", "windows_bootnext", "text_menu", "autoboot", "splash",
     "splash_gui", "remember_last", "selfheal", "restore_fallback",
     "recovery_entries", "hotplug", "mouse", "scan_existing", "log", "editor"}
BootRules(key, v) ==
    IF key \in BootSwitches THEN Set(key, Lower(v))
    ELSE IF key = "timeout" THEN
           [timeout |-> IF Starts(v, {"-"}) THEN -1 ELSE Number[v], timeout_set |-> TRUE]
    ELSE IF key = "default" THEN [default |-> Number[v]]
    ELSE IF key = "cmdline" THEN [cmdline |-> PathOf(v)]
    ELSE IF key \in {"show_names", "center_info"} THEN Set(key, Lower(v)) ++ Set(Marks[key], TRUE)
    ELSE IF key = "autoboot_key" THEN IF v \in KeyNames THEN [autoboot_key |-> v] ELSE Unchanged
    ELSE IF key = "splash_image" THEN [splash_image |-> PathOf(v)]
    ELSE IF key = "checkpoints" THEN [checkpoints |-> AnyCase(v)]
    ELSE IF key = "boot_order" THEN
           IF v \in {"off", "no"} \/ Starts(v, {"0"}) THEN [boot_order |-> "off"]
           ELSE IF v \in {"ensure", "readd", "repair"} THEN [boot_order |-> "ensure"]
           ELSE IF v \in {"first", "visor_first", "on", "yes"} \/ Starts(v, {"1"})
                THEN [boot_order |-> "first"] ELSE Unchanged
    ELSE IF key = "snapshots" THEN
           [snapshots |-> IF v = "manifest" THEN 2 ELSE IF Lower(v) THEN 1 ELSE 0]
    ELSE IF key = "mouse_speed" THEN [mouse_speed |-> Clamped(Number[v], 1, 20)]
    ELSE IF key = "cursor" THEN
           [cursor |-> IF v \in {"default", "arrow", "none", "off"} THEN Nothing ELSE PathOf(v)]
    ELSE IF key = "cursor_size" THEN [cursor_size |-> Number[v]]
    ELSE IF key = "cursor_hotspot" THEN
           IF v \in Hotspots \cup {"center", "centre", "middle", "topleft", "tip"}
           THEN [cursor_hotspot |-> v] ELSE Unchanged
    ELSE IF key = "scan" THEN
           OneOf("scan", [deep |-> {"deep", "deepscan", "full"},
                          quick |-> {"quick", "quickscan", "fast"}], v)
    ELSE IF key = "deep_scan" THEN [scan |-> IF Lower(v) THEN "deep" ELSE "quick"]
    ELSE IF key = "quick_scan" THEN [scan |-> IF Lower(v) THEN "quick" ELSE "deep"]
    ELSE IF key = "no_log" THEN [log |-> ~Lower(v)]
    ELSE Unchanged

LookNumbers ==
    {"box_radius", "logo_size", "logo_gap", "title_size", "name_size", "icon_size",
     "icon_spacing", "icon_y", "underline_thickness", "underline_length"}
LookRules(key, v) ==
    IF key \in LookNumbers THEN Set(key, Number[v])
    ELSE IF key = "resolution" THEN      \* WxH, max, or what the firmware runs
           [resolution |-> IF v \in {"max", "highest"} THEN "max"
                           ELSE IF v \in Sizes THEN v ELSE "native"]
    ELSE IF key \in {"theme", "font", "background"} THEN Set(key, PathOf(v))
    ELSE IF key = "title" THEN
           [no_title |-> v = "none", title |-> IF v = "none" THEN Nothing ELSE PathOf(v)]
    ELSE IF key = "logo" THEN
           [no_logo |-> v \in {"none", "off"},
            logo |-> IF v \in {"none", "off", "default"} THEN Nothing ELSE PathOf(v)]
    ELSE IF key = "logo_mode" THEN
           OneOf(key, [title |-> {"title", "beside"}, only |-> {"only", "standalone"},
                       above |-> {"above", "stacked"}, off |-> {"none", "off"}], v)
    ELSE IF key = "accent_logo" THEN
           Accent("sp_logo", "accent_logo", v)
           ++ (IF SpecOf(v) = "invalid" THEN Unchanged ELSE [has_accent_logo |-> TRUE])
    ELSE IF key \in {"title_color", "name_color", "highlight_color"} THEN Tint(Specs[key], key, v)
    ELSE IF key \in {"underline_color", "shutdown_color", "reboot_color", "firmware_color"} THEN
           OwnTint(Specs[key], key, Owned[key], v)
    ELSE IF key = "power_position" THEN
           IF v \in {"topright", "topleft", "bottomleft", "bottomright"}
           THEN [power_position |-> v] ELSE Unchanged
    ELSE Unchanged

MenuSwitches ==
    {"intro_loop", "intro_auto_continue", "power_icons", "animation", "blur_title"}
MenuRules(key, v) ==
    IF key \in MenuSwitches THEN Set(key, Lower(v))
    ELSE IF key \in {"intro_media", "shutdown_icon", "reboot_icon", "firmware_icon"} THEN
           Set(key, PathOf(v))
    ELSE IF key = "intro_duration" THEN
           IF Starts(v, {"0", "1", "2", "3", "4", "5", "6", "7", "8", "9"})
           THEN [intro_duration |-> Least(Number[v], 5000)] ELSE Unchanged
    ELSE IF key = "intro_action" THEN
           IF v \in {"menu", "boot"} THEN [intro_boot |-> v = "boot"] ELSE Unchanged
    ELSE IF key \in {"power_icon_size", "anim_speed", "fade_speed", "entries_per_page"} THEN
           Set(key, Number[v])
    ELSE IF key = "blur" THEN
           [blur |-> IF Starts(v, {"c", "C"}) THEN 2
                     ELSE IF Lower(v) \/ Starts(v, {"f"}) THEN 1 ELSE 0]
    ELSE IF key = "blur_color" THEN OwnTint("sp_blur", key, "has_blur_color", v)
    ELSE IF key = "accent" THEN Accent("sp_all", "accent_enabled", v)
    ELSE IF key \in {"accent_icons", "accent_underline", "accent_text", "accent_os_icons"} THEN
           Accent(Specs[key], key, v)
    ELSE IF key = "info_color" THEN Tint("sp_info", "fg_color", v)
    ELSE IF key = "bg_color" THEN Tint("sp_bg", key, v)
    ELSE IF key = "accent_variant" THEN Set(key, v)
    ELSE Unchanged

DateForms == [long |-> {"long", "full"}, iso |-> {"iso", "ymd"},
              dmy |-> {"dmy", "eu"}, mdy |-> {"mdy", "us"}]
DateForm(v) ==
    IF \E f \in DOMAIN DateForms : v \in DateForms[f]
    THEN CHOOSE f \in DOMAIN DateForms : v \in DateForms[f]
    ELSE IF v = "on" \/ Starts(v, {"1", "t", "y", "T", "Y"}) THEN "long"
    ELSE IF v = "off" \/ Starts(v, {"0", "f", "n", "F", "N"}) THEN "off" ELSE "invalid"
ClockPlaces ==
    [topright |-> {"topright", "top_right"}, topleft |-> {"topleft", "top_left"},
     topcenter |-> {"topcenter", "top_center", "topcentre", "top_centre", "top"},
     bottomright |-> {"bottomright", "bottom_right"},
     bottomleft |-> {"bottomleft", "bottom_left"},
     bottomcenter |-> {"bottomcenter", "bottom_center", "bottomcentre", "bottom_centre",
                       "bottom"},
     center |-> {"center", "centre", "middle"}]
ClockRules(key, v) ==
    IF key \in {"clock_seconds", "clock_blur", "clock_shadow", "clock_sync"} THEN Set(key, Lower(v))
    ELSE IF key = "clock" THEN Accent("sp_clock", "show_clock", v)
    ELSE IF key = "accent_clock" THEN Accent("sp_clock", "accent_clock", v)
    ELSE IF key = "clock_color" THEN
           Tint("sp_clock", key, v)
           ++ (IF SpecOf(v) = "invalid" THEN Unchanged ELSE [has_clock_color |-> TRUE])
    ELSE IF key = "clock_size" THEN Set(key, Number[v])
    ELSE IF key = "clock_format" THEN
           IF Starts(v, {"12", "24"}) THEN [clock_24h |-> Starts(v, {"24"})] ELSE Unchanged
    ELSE IF key = "clock_position" THEN OneOf(key, ClockPlaces, v)
    ELSE IF key = "clock_date" THEN
           IF DateForm(v) = "invalid" THEN Unchanged
           ELSE [clock_date_format |-> DateForm(v), clock_date |-> DateForm(v) # "off"]
    ELSE IF key = "clock_date_format" THEN
           IF DateForm(v) \in {"invalid", "off"} THEN Unchanged
           ELSE [clock_date_format |-> DateForm(v), clock_date |-> TRUE]
    ELSE Unchanged

LastRules(key, v) ==
    IF key = "screensaver" THEN      \* a number of seconds switches it on as well
           IF \/ Starts(v, {"2", "3", "4", "5", "6", "7", "8", "9"})
              \/ (Starts(v, {"1"}) /\ v # "1")
           THEN [screensaver |-> TRUE, screensaver_delay |-> Number[v]]
           ELSE [screensaver |-> Lower(v)]
    ELSE IF key \in {"screensaver_delay", "screensaver_blank"} THEN Set(key, Number[v])
    ELSE IF key \in {"screensaver_clock", "tpm", "loader_vars"} THEN Set(key, Lower(v))
    ELSE IF key = "record_seconds" THEN [record_seconds |-> Clamped(Number[v], 1, 12)]
    ELSE IF key = "menu_sound" THEN
           IF Starts(v, {"0", "n", "f"}) \/ v = "off" THEN [menu_sound_on |-> FALSE]
           ELSE [menu_sound_on |-> TRUE, menu_sound |-> PathOf(v)]
    ELSE IF key = "menu_sound_volume" THEN [menu_sound_volume |-> Least(Number[v], 100)]
    ELSE IF key \in {"tpm_pcr_config", "tpm_pcr_cmdline"} THEN
           Set(key, IF Starts(v, {"0", "1", "2", "3", "4", "5", "6", "7", "8", "9"})
                       /\ Number[v] <= 23 THEN Number[v] ELSE "default")
    ELSE Unchanged

Update(key, v) ==
    BootRules(key, v) ++ LookRules(key, v) ++ MenuRules(key, v) ++ ClockRules(key, v)
    ++ LastRules(key, v)
Applied(settings, key, v) == Update(Named(key), v) ++ settings

(* The defaults a later step asks for.                                       *)
Defaults ==
    [log |-> TRUE, checkpoints |-> TRUE, exclude_self |-> TRUE, default |-> 0,
     scan |-> "deep", recovery_entries |-> FALSE, snapshots |-> 1, cmdline |-> Nothing,
     theme |-> Nothing]
Get(settings, field) ==
    IF field \in DOMAIN settings THEN settings[field] ELSE Defaults[field]

-----------------------------------------------------------------------------
(* The early pass: [log, checkpoints, inside].                               *)
Headers == {"entry", "linux", "windows"}
IsHeader(l) == l.kind \in {"header", "open"} /\ l.key \in Headers
EarlyKeyAnyCase(acc, key, v) ==
    IF Named(key) = "log" THEN [acc EXCEPT !.log = AnyCase(v)]
    ELSE IF key = "no_log" THEN [acc EXCEPT !.log = ~AnyCase(v)]
    ELSE IF Named(key) = "checkpoints" THEN [acc EXCEPT !.checkpoints = AnyCase(v)]
    ELSE acc
EarlyKey(acc, key, v) ==
    IF Named(key) = "log" THEN [acc EXCEPT !.log = Lower(v)]
    ELSE IF key = "no_log" THEN [acc EXCEPT !.log = ~Lower(v)]
    ELSE IF Named(key) = "checkpoints" THEN [acc EXCEPT !.checkpoints = AnyCase(v)]
    ELSE acc
EarlyLine(acc, l) ==
    IF acc.inside THEN [acc EXCEPT !.inside = l.kind # "close"]
    ELSE IF IsHeader(l) THEN [acc EXCEPT !.inside = TRUE]
    ELSE IF l.kind = "key" THEN EarlyKey(acc, l.key, l.value) ELSE acc
EarlyFlags(conf) ==
    LET start == [log |-> TRUE, checkpoints |-> TRUE, inside |-> FALSE]
    IN  IF conf = Nothing THEN start ELSE Folded(EarlyLine, start, conf)

-----------------------------------------------------------------------------
(* parse_entry: the keys of a block, then the entry.                         *)
BlockSwitches == [encrypted |-> "encrypted", kernel_encrypted |-> "kernel_encrypted",
                  initrd_encrypted |-> "initrd_encrypted", luks |-> "luks",
                  luks_password |-> "luks", luks_confirm |-> "luks_confirm",
                  luks_verify |-> "luks_confirm", luks_verbose |-> "luks_verbose",
                  luks_show_prompt |-> "luks_verbose"]
BlockTexts == [name |-> "name", uuid |-> "uuid", cmdline |-> "cmdline", options |-> "cmdline",
               luks_key_path |-> "luks_key_path", luks_cmdline |-> "luks_cmdline",
               luks_options |-> "luks_cmdline", luks_options_append |-> "luks_cmdline",
               luks_preset |-> "luks_preset", luks_initramfs |-> "luks_preset"]
BlockKey(key, v) ==
    IF key \in DOMAIN BlockSwitches THEN Set(BlockSwitches[key], Lower(v))
    ELSE IF key \in DOMAIN BlockTexts THEN Set(BlockTexts[key], v)
    ELSE IF key \in {"icon", "kernel", "initrd"} THEN Set(key, PathOf(v))
    ELSE IF key = "color" THEN
           IF v \in Roles THEN [color_role |-> v, color |-> Nothing]
           ELSE IF v \in Colors THEN [color_role |-> Nothing, color |-> v] ELSE [color |-> Nothing]
    ELSE IF key = "sha256" THEN [sha256 |-> IF v \in Hashes THEN v ELSE Nothing]
    ELSE IF key = "icon_size" THEN [icon_size |-> Number[v]]
    ELSE Unchanged

Had(block, field, otherwise) == IF field \in DOMAIN block THEN block[field] ELSE otherwise
LuksCmdline(block) ==
    LET preset == Had(block, "luks_preset", Nothing)
        path == Had(block, "luks_key_path", "/crypto_keyfile.bin")
    IN  IF "luks_cmdline" \in DOMAIN block \/ ~Had(block, "luks", FALSE)
        THEN Had(block, "luks_cmdline", Nothing)
        ELSE IF preset \in {"mkinitcpio", "arch"} THEN <<"cryptkey=rootfs:", path>>
        ELSE IF preset \in {"dracut", "systemd"} THEN <<"rd.luks.key=", path>> ELSE Nothing

(* What must hold of the files before they are used, and what is asked for.  *)
Secret(block) ==
    LET both == Had(block, "encrypted", FALSE)
    IN  [sha256 |-> Had(block, "sha256", Nothing), luks |-> Had(block, "luks", FALSE),
         confirm |-> Had(block, "luks_confirm", FALSE), luksCmdline |-> LuksCmdline(block),
         kernel |-> Had(block, "kernel_encrypted", both),
         initrd |-> Had(block, "initrd_encrypted", both)]

(* config_add_entry.  volume and uuid are Nothing until they are known.      *)
TakesDefault(path, type) ==
    path # Nothing /\ type = 0 /\ path \notin WindowsPaths \cup LoaderPaths
NewEntry(name, path, cmdline, type, settings) ==
    [name |-> name, path |-> path, type |-> type, volume |-> Nothing, uuid |-> Nothing,
     cmdline |-> IF cmdline # Nothing THEN cmdline
                 ELSE IF TakesDefault(path, type) /\ Get(settings, "cmdline") # Nothing
                      THEN Cmdline[Get(settings, "cmdline")] ELSE Nothing,
     initrd |-> Nothing, secret |-> Secret(Unchanged), deps |-> <<>>, dflt |-> 1, sel |-> 1,
     snapshots |-> <<>>]

OfBlock(block, settings) ==
    LET kernel == Had(block, "kernel", Nothing)
        type == IF block.windows \/ kernel \in WindowsPaths THEN 1 ELSE 0
        cmdline == Had(block, "cmdline", Nothing)
    IN  IF Had(block, "name", Nothing) = Nothing \/ kernel = Nothing THEN <<>>
        ELSE << [NewEntry(block.name, kernel, IF cmdline = Nothing THEN Nothing ELSE Cmdline[cmdline],
                          type, settings)
                 EXCEPT !.uuid = Had(block, "uuid", Nothing), !.initrd = Had(block, "initrd", Nothing),
                        !.secret = Secret(block)] >>

(* config_parse: one line, of an entry when inside.                          *)
EndBlock(acc) ==
    [acc EXCEPT !.inside = FALSE, !.block = Unchanged,
                !.entries = @ \o OfBlock(acc.block, acc.settings)]
Ends(l, braced) == l.kind = "close" \/ (l.kind = "blank" /\ ~braced)
ParseLine(acc, l) ==
    IF acc.inside THEN
        IF Ends(l, acc.block.braced) THEN EndBlock(acc)
        ELSE IF l.kind = "key" THEN [acc EXCEPT !.block = BlockKey(l.key, l.value) ++ @]
        ELSE acc
    ELSE IF l.kind = "key" THEN [acc EXCEPT !.settings = Applied(@, l.key, l.value)]
    ELSE IF IsHeader(l)
    THEN [acc EXCEPT !.inside = TRUE,
                     !.block = [braced |-> l.kind = "open", windows |-> l.key = "windows"]]
    ELSE acc
Parsed(conf) ==
    LET start == [settings |-> Unchanged, entries |-> <<>>, inside |-> FALSE, block |-> Unchanged]
        acc == Folded(ParseLine, start, conf)
    IN  IF acc.inside THEN EndBlock(acc) ELSE acc

-----------------------------------------------------------------------------
(* Every key line of a theme, blocks or not, except theme= itself.           *)
ThemeLine(s, l) ==
    IF l.kind = "key" /\ l.key # "theme" THEN Applied(s, l.key, l.value) ELSE s
Themed(settings, theme) ==
    Folded(ThemeLine, settings, theme)
=============================================================================
