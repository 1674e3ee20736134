# TLA+ verification of the inference services

This directory holds TLA+ models of the services in `src/`, the TLC
configurations that check them, and TLAPS proofs about them.
`PROJECT.json` lists every component, run, mutant, source mapping, finding,
hazard and theorem. This file explains them.

## 1. Inventory

### Components

| Component | Source | State | Operations |
|---|---|---|---|
| Omni background loader | `docker/qwen3-omni-server/service.py` 64-135 | globals `model_loading`, `model_loaded`, `loading_error`, `model`, `processor` | `lifespan` starts a daemon thread. `load_model_async` runs a reentry guard, sets `model_loading`, logs the device outside the `try`, loads the processor and then the model, sets `model_loaded` and clears `loading_error`. On an exception it logs and then stores `loading_error`. Its `finally` clears `model_loading`. |
| Omni HTTP facade | same file, 146-312 | reads only | `/health`, `/status`, `/v1/models`, `/v1/chat/completions`, `/inference/text`. The two inference handlers gate on `model_loaded`, then on `model_loading`. |
| Omni text adapter | same file, 183-247 and 259-300 | none | Builds the chat template, tokenises, generates and decodes. Any exception becomes a 500. |
| TTS lifecycle and facade | `docker/tts/main.py` | globals `model`, `model_loaded` | `lifespan` loads synchronously before serving and resets both globals at shutdown. `/v1/tts` uses the real model or the fallback. `/v1/audio/speech` returns 503 unless loaded. `/health` and `/` read the globals. |
| TTS fallback generator | `docker/tts/main.py` 94-112 | none | Computes the duration from the text length, the script and the speed. Then it builds a sine mix and its fade envelope. |
| Config patcher | `scripts/fix_qwen3_omni_config.py` | the files `config.json` and `config.json.backup` | Reads the config and adds the two missing keys. If no backup exists, it renames the config to the backup. Then it writes the new config. |
| Load test script | `scripts/test_qwen3_omni.py` | none | Loads once, generates once and prints. |

### How the parts interact

- In the Omni service, two threads share the five globals. The loader
  thread is the only writer.
- The event-loop thread runs the handlers. They are `async def` bodies
  with no `await`, so the loop runs one handler at a time from start to
  reply. The loader thread can still be scheduled between any two reads of
  a global.
- The TTS service has no second thread. It loads the model before it
  serves any request.
- The patcher and the Omni loader touch the same model directory. The
  spec says they must not run together. Nothing in the code prevents it.

### What is hard here

- **Non-atomic reads.** Each handler reads two or three globals in separate
  steps while the loader writes them (service.py 150-154, 177-178, 308-310).
- **Publication order.** `model_loaded` must be set only after `processor`
  and `model` are assigned (86, 94, 108).
- **Partial failure.** The load can stop after the processor is in place,
  or after the model is in place. The globals are then half set.
- **Exceptions outside the handling.** The device logging (73-79) runs
  after `model_loading = True` but before the `try`, and the `except`
  clause logs (112-114) before it stores the error (115).
- **No timeout and no retry.** A load that hangs stays in `loading` forever.
  A failed load stays failed until the process restarts.
- **A blocked event loop.** A generation holds the event loop, so
  `/health` waits behind it.
- **Crashes in the patcher.** A crash between the rename and the write
  leaves no `config.json`. A crash during the write leaves a truncated one.

### What makes each component correct

- **Loader.** The state goes idle, then loading, then loaded or failed,
  and never goes back. The load runs once and ends (spec 3, 4.1). The
  code only guarantees the first part with a third end, "abandoned".
- **Facade.** A handler generates only when the model is loaded. A 503
  answer says what the state really was. `/health` and `/status` report a
  state the loader really was in (spec 4.2, 8).
- **TTS.** The real path runs only with a loaded model. The
  `real_model` and `fallback_mode` flags agree with the path taken.
- **Fallback audio.** The duration never decreases as the text gets
  longer, and never increases as the speed goes up (spec 8).
- **Patcher.** Running it twice gives the same result. It never overwrites
  an existing backup. A crash at any point leaves the original content
  recoverable (spec 4.5, 8).

## 2. Modules

| Module | Models | Kind |
|---|---|---|
| `LoadState` | the loader the spec promises (spec 3, 4.1) | abstract specification |
| `LoadAttempt` | what one load attempt of the code guarantees | abstract specification |
| `OmniService` | `service.py`: the loader thread and the four stateful handlers | detailed specification |
| `OmniServiceProofs` | type correctness, `InferenceUsesLoadedModel`, the `LoadAttempt` refinement | TLAPS |
| `TtsService` | `tts/main.py`: lifespan, the four handlers, shutdown | detailed specification |
| `SpeechPath` | the TTS paths the spec promises (spec 4.4) | abstract specification |
| `TtsServiceProofs` | type correctness, `EndpointsAgree`, the `SpeechPath` refinement | TLAPS |
| `FallbackAudio` | the duration computed by `generate_fallback_audio` | pure algorithm |
| `FallbackAudioProofs` | the three `fallback_core` properties for texts of every length | TLAPS |
| `ConfigPatcher` | `fix_qwen3_omni_config.py` with crashes and reruns | detailed specification |
| `ConfigPatcherProofs` | `OriginalRecoverable`, `CompletedRunsFix` | TLAPS |

No module composes the patcher with the Omni loader. Spec 4.5 says the
patcher is never run against a loading service. The default paths also
differ: the service reads `MODEL_PATH` (default `/models`), while the
script has a cache path hard-coded. The hazard would only exist if an
operator broke that rule.

## 3. The Omni service model (`OmniService.tla`)

**State.**

- `lpc` is the loader thread's position in `load_model_async`.
- `model_loading`, `model_loaded`, `loading_error`, `model` and `processor`
  are the globals (service.py 30-34). The model object, the processor and
  the exception text are each one token.
- `hpc` is the event loop's position in the running handler, and
  `endpoint` is which handler is running.
- `reply` and `view` are what the handler answers.
- `seen` is a history variable. It holds the set of flag snapshots that
  held while the current handler ran. Only the `*Atomic` properties read
  it, and it does not change behaviour.

**Actions.**

- `Lifespan` starts the thread (129-130).
- The loader steps are `LoaderGuard` (68-71), `LogDevice` (73-79),
  `LoadProcessor` (81-87), `LoadModel` (89-100), `ModelInfo` (102-106),
  `SetLoaded` (108), `ClearError` (109), `ExceptLog` (111-114), `SetError`
  (115) and `Finally` (116-117). Each external call either succeeds or
  raises.
- `LogDevice` runs outside the `try`. If a print or a `torch.cuda` query
  raises, the thread ends at `"died"`: no `except`, no `finally`, and
  `model_loading` stays true.
- `ExceptLog` covers the print and `traceback.print_exc()`. If either
  raises, the clause is left before line 115 and the `finally` runs with
  no error stored.
- `Receive(e)` dispatches a request, but only after `lifespan` has started
  the thread and only when no handler is running.
- `GateLoaded` (177 / 253) and `GateLoading` (178-181 / 254-257) are the
  two reads of the gate. `Generate` (183-247) returns or raises.
- `health` reads three globals, one step each (150, 153, 154). `status`
  does the same (308-310).

**Abstract state.** `ServiceState` maps the flags to
idle/loading/loaded/failed in the precedence `/health` uses (loading
first). `LoadState.tla` is the abstract loader of spec 3 and 4.1, with
weak fairness. The code does not implement it (see the findings).
`LoadAttempt.tla` is what the code does guarantee: idle, loading once,
then loaded, failed or abandoned for good, with no promise that the
attempt ends. `AttemptState` maps the flags to it; it reads `lpc` only
to tell "abandoned" (the flags read idle after the `finally`) from
"idle" (not begun).

**Fairness.** There is weak fairness on the loader thread. This assumes
the thread is scheduled and each `from_pretrained` returns or raises.
It does not hide the thread's death at 73-79: at `"died"` no loader step
is enabled, so fairness asks nothing. The
code has no timeout, so this is an assumption about the library, not a
guarantee of the code. There is also weak fairness on the running
handler: a handler with no `await` runs to its end once started.
`Receive` has no fairness, because clients need not send anything.

### Runs

| Run | cfg | Result | What it shows |
|---|---|---|---|
| `omni_core` | `OmniService.cfg` | pass, 1524 states | `TypeOK`; `InferenceUsesLoadedModel`: a handler in `generate` has both objects loaded; `ImplementsLoadAttempt`: the detailed loader implements `LoadAttempt!Spec`. |
| `omni_gate_race` | `OmniGateRace.cfg` | violation | `GateReplyAtomic` fails, see below. |
| `omni_status_race` | `OmniStatusRace.cfg` | violation | `StatusViewAtomic` fails, see below. |
| `omni_load_state` | `OmniLoadState.cfg` | violation | `LoaderRefinesLoadState` (the spec's loader) fails: loading goes back to idle, see below. |
| `omni_load_ends` | `OmniLoadEnds.cfg` | violation | `LoadEnds` fails: the thread dies at 73-79 with `model_loading` true, see below. |

Each `omni_core` property has a mutant that breaks it:

- `HealthStatus` is replaced by one that reports `"failed"`, which breaks
  `TypeOK`.
- The gate tests `model_loading` instead of `model_loaded`, which breaks
  `InferenceUsesLoadedModel`.
- The guard does not set `model_loading`, which breaks
  `ImplementsLoadAttempt`: the state jumps from idle to loaded.

**Bounds.** The model has no size parameter. There is one loader thread
and one event loop, and `Receive` can run any number of times. The state
space is finite because a finished request's data is reset on the next
`Receive`. Every loader path (device logging dies, processor fails,
model fails, info fails, the except logging fails, success) can interleave with every handler step, so all interleavings of
two reads with one to four loader writes are covered.

### Findings

- **Gate race (code bug, service.py 177-178 and 253-254).** The gate tests
  `model_loaded` first. Suppose it reads false, and then the loader runs
  `model_loaded = True` and its `finally`. The second read sees
  `model_loading` false, and the client receives
  `503 "Model failed to load"` from a service that was only ever loading
  or loaded. This needs a thread switch between the two reads of a global.
  CPython 3.9 and older allow that at any bytecode, and so do free-threaded
  builds. CPython 3.10 and later only switch at calls and backward jumps.
  One read of a snapshot, or a lock, would fix it.
- **Status replies mix states (spec divergence, service.py 150-154 and
  308-310).** `/health` can report `status="unhealthy", loading=true`.
  `/status` can report `loaded=false, loading=false, error=null` after a
  successful load. On CPython 3.10 and later, the `model.device` property
  call on line 152 is a switch point once `model` is assigned.
- **A failed load can end looking idle (code bug, service.py 112-115).**
  The `except` clause prints and calls `traceback.print_exc()` before
  `loading_error = str(e)`. If the logging raises (a closed or broken
  stdout or stderr), the error is never stored. The `finally` still
  clears `model_loading`, so the flags read idle: `/status` says
  `loaded=false, loading=false, error=null`. Spec 4.1 and 8 say the
  service is failed and keeps the message. TLC finds the trace in 7
  steps.
- **A load can show "loading" forever (code bug, service.py 71-81).**
  `model_loading = True` comes before the `try`. If a device print or
  `torch.cuda.get_device_name` / `get_device_properties` raises, the
  thread ends with no `finally`. `/health` says "loading" and every
  inference request gets 503 "still loading" until a restart.
  `LoadEnds` (`model_loading ~> ~model_loading`) fails in a lasso that
  stays at `"died"` while requests keep arriving.
- **Not a run, noted.** While `model_loaded` and `model_loading` are both
  true (108-117), `/health` says "loading" and inference requests are
  already served. The spec's enum has no such state.

## 4. The TTS service model (`TtsService.tla`)

**State.**

- `phase` is where `lifespan` is. It is `"serving"` while `lifespan` waits
  at its `yield`, `"stopped"` after shutdown, and `"aborted"` when an
  exception escaped `lifespan` and the server never started.
- `model` and `model_loaded` are the globals (lines 32-33).
- `tmp` counts the temporary WAV files that `/v1/audio/speech` leaves
  behind (`delete=False`, line 253). `MaxTemp` caps it.
- `reply` holds the fields of the last reply.
- `answered` is a history variable. It holds the modes the two synthesis
  endpoints have shown: real or fallback for `/v1/tts`, ready or 503 for
  `/v1/audio/speech`.

**Actions.**

- `CheckFiles` (44-60, 73-76) covers the opening prints and
  `os.listdir`, which run outside the `try`. If one raises, the server
  never starts. With model files the load begins; without them the
  service serves in fallback mode.
- `FromPretrained` (61-63) either returns the model or raises.
- `Announce` (64-66) covers the two success prints and
  `model_loaded = True`. A print that raises, e.g. on a closed or full
  non-blocking stdout, skips the assignment and leaves `model` set.
- `Except` (67-72) prints before `model_loaded = False`. If those prints
  raise too, `lifespan` aborts.
- `Shutdown` (80-83) clears both globals.
- `text_to_speech`, `openai_compatible_tts`, `health_check` and `root`
  are the handlers. Each is a single step, because none of them awaits
  anything and `lifespan` has finished its startup part before any of
  them runs.
- `AudioInt16` (166-170) is the conversion modelled by what it does:
  `isinstance(audios[0], np.floating)` is false for an array, so the
  samples keep their dtype.

### Runs

| Run | cfg | Result | What it shows |
|---|---|---|---|
| `tts_core` | `TtsService.cfg` (`MaxTemp = 2`) | pass, 135 states | `EndpointsAgree`: `/v1/tts` and `/v1/audio/speech` agree on whether the model is usable, in every lifespan outcome. |
| `tts_health_path` | `TtsHealthPath.cfg` | violation | `HealthShowsTtsPath` fails, see the findings. |
| `tts_int16` | `TtsInt16.cfg` | violation | `RealAudioInt16` fails, see the findings. |

`tts_core` also checks `ImplementsSpeechPath`. This says the service
implements `SpeechPath`, the abstract promise of spec 4.4:

- The real and fallback paths exclude each other.
- A process settles on one of them when `lifespan` reaches its `yield`,
  or never starts.
- Every synthesis request until shutdown is answered on that path.

The refinement mapping `PathOf` reads the phase and the branch condition
of line 150.

Mutants:

- `/v1/audio/speech` gated on `model is None` alone. This breaks
  `EndpointsAgree` in the half-set state.
- The branch of line 150 without `model_loaded`. This breaks the
  refinement: in the half-set state `/v1/tts` takes the real path while
  `/v1/audio/speech` answers 503.

`CHECK_DEADLOCK FALSE` is justified: after shutdown or a failed startup
the process exits. A bound of two temp files is enough to fire both the
failed-write and the successful-write branches. Nothing else in the
model grows.

## 5. The fallback generator (`FallbackAudio.tla`)

`Duration(text, q)` computes `max(1.0, len / chars_per_sec / speed)` in
exact rationals, with `speed = q/4`. A text is a sequence of the classes
`"cjk"` and `"latin"`. The speed takes every multiple of 0.25 in the range
that `TTSRequest` accepts (line 40). The float arithmetic is left out:
it only differs from the exact values by the last bit.

The variables are a harness. `Lengthen` adds a character, `SpeedUp` raises
the speed, and `NewRequest` starts over. The action properties compare
consecutive inputs.

| Run | cfg | Result | What it shows |
|---|---|---|---|
| `fallback_core` | `FallbackAudio.cfg` (`MaxLen = 7`) | pass, 1778 states | `LongerTextNotShorter` (holds even when one CJK character switches the whole text to 3 chars/s), `FasterNotLonger`, and `MixedTextAtCjkRate` (a text with a CJK character in any place lasts as long as an all-CJK text of its length). |
| `fallback_speed` | `FallbackSpeed.cfg` | violation | `InverselyProportional` fails because of the 1 s clamp. |

Mutants:

- The script test uses "all CJK" instead of "any". This breaks
  `LongerTextNotShorter`: 3 CJK characters at speed 0.5 give 2 s, and
  adding one Latin character gives 1.6 s.
- The speed multiplies instead of dividing. This breaks `FasterNotLonger`.
- `has_chinese` tests only the first character. This breaks
  `MixedTextAtCjkRate` on `<<"latin", "cjk">>`.

Seven characters are enough: the durations pass the clamp for both
scripts, and a first CJK character occurs at every place of a text. The waveform and the fade envelope are
not modelled. The clamp keeps every clip at least 24000 samples long, so
the `len(audio) // 4` bound of line 107 never binds.

## 6. The config patcher (`ConfigPatcher.tla`)

**State.**

- `config` and `backup` are the two files. Each is absent, torn (the
  empty file that `open(..., 'w')` leaves), or a JSON document.
- A document holds the four keys the script inspects and a layout tag:
  `"orig"`, or `"indent2"` as `json.dump` writes it.
- `ppc` is the script's position.
- `mem` is the config the script holds in memory.
- `original` and `stale` are history variables. `original` is the
  config before the first run. `stale` says a backup from an earlier
  patch was already present.

**Actions.** The actions are `Start`, `Read` (16-17: a missing or torn
file raises), `PatchConfig` (19-36), `Backup` (38-42),
`OpenForWrite` (46: truncates) and `Dump` (47). `Crash` can stop the
process at any step after the read. The operator may rerun the script at
any time.

| Run | cfg | Result | What it shows |
|---|---|---|---|
| `patcher_core` | `ConfigPatcher.cfg` | pass, 600 states | `OriginalRecoverable`: whatever runs and crashes happen, the original is `config.json` or the backup (unless a stale backup was there). `CompletedRunsFix`: every completed run writes the same fixed config. |
| `patcher_untouched` | `PatcherUntouched.cfg` | violation | `UntouchedWithoutTarget` fails, see the findings. |

Mutants:

- The rename happens without the existence check. This breaks
  `OriginalRecoverable`: a rerun moves the patched file over the backup.
- The `sliding_window` test is nested under the `use_sliding_window`
  test. This breaks `CompletedRunsFix`.

The initial states cover every shape of the key path and every earlier
backup. A crash at every step and unbounded reruns make the space finite
but exhaustive.

## 7. Findings

- **Omni gate race (code bug, service.py 177-178 and 253-254)**,
  **Omni status replies mix states (spec divergence, service.py 150-154,
  308-310)**, **a failed load can end looking idle (code bug, service.py
  112-115)** and **a load can show "loading" forever (code bug,
  service.py 71-81)**, described in section 3.
- **TTS health contradicts the path taken (code bug, main.py 123-124
  against 150).** Suppose an exception is raised between `model = ...` and
  `model_loaded = True`. Then `model` stays set. `/health` reports
  `real_model: true, fallback_mode: false`, while `/v1/tts` serves sine
  waves and `/v1/audio/speech` answers 503.
- **The int16 conversion never runs (code bug, main.py 167 and 247).**
  `isinstance(audios[0], np.floating)` asks whether an array is a float
  scalar, so float samples are written as a float WAV.
- **The fallback duration is not inversely proportional to speed (spec
  divergence, main.py 98).** The `max(1.0, ...)` clamp makes short texts
  last 1 s at every speed.
- **The patcher touches configs it does not need to fix (spec divergence,
  fix_qwen3_omni_config.py 42 and 47).** A config without the target
  field is renamed to the backup and rewritten with `indent=2`.

## 8. Proofs

**`TypeCorrect`: `Spec => []TypeOK`.** The proof has one lemma for the
loader steps and one for the handler steps. `ObserveTyped` handles the
history variable separately, because the set-of-records obligation is
too large for SMT in one piece.

**`GenerateOnlyWhenLoaded`: `Spec => []InferenceUsesLoadedModel`.**
`InferenceUsesLoadedModel` is not inductive by itself, because a step
that sets `model_loaded` says nothing about `model`. The strengthening
`IInv` adds three conjuncts:

- `LoadOrder`: the loader's position implies which objects are assigned.
- `LoadedHasObjects`: `model_loaded` implies both objects are assigned.
- `GatePassedLoaded`: a handler in `generate` read `model_loaded`, and
  nothing clears it.

`IInv` was checked with TLC first (1524 states). `InitIInv`, `LoaderIInv`
and `HandlerIInv` prove its three obligations, one case per action.

The proofs hold without assumptions, because the module has no constants.

**`LoaderImplementsLoadAttempt`: `Spec => ImplementsLoadAttempt`.**
This is the whole refinement of `LoadAttempt`, which has no fairness. The
initial state maps to `"idle"`. Every step maps to a `LoadAttempt` step
or stutters. The invariant `RInv` is `TypeOK` plus `LoaderPhase`, which
ties the loader's position to the flags: none set before the guard;
`model_loading` from the guard until the `finally`, and for good at
`"died"`; neither a model nor an error before line 108 or 115;
`model_loaded` at line 109; `model_loading` clear once exited. It is
needed because `AttemptState` alone does not say which step comes next.
With it, `StepRefines` shows that the guard is `Begin`, the `finally` is
`Succeed`, `Fail` or `Abandon`, and every other step stutters. It was
checked with TLC first (1524 states). The spec's `LoadState` is not
proved, because it does not hold.

**`ConfigPatcherProofs`: `OriginalSurvives`: `Spec => []OriginalRecoverable`.**
`OriginalRecoverable` does not say which file holds the original, so it
is not inductive. The strengthening `BackupHoldsOriginal` says three
things when there was no stale backup:

- With no backup, `config.json` is untouched.
- With a backup, the backup is the original.
- A run at the truncate or the dump has a backup.

The third conjunct is what the existence check of lines 38-42 buys. The
invariant was checked with TLC first (600 states).

**`TtsServiceProofs`: `TypeCorrect` and `SynthesisEndpointsAgree`.**
These prove `Spec => []EndpointsAgree` for every value of `MaxTemp`,
assuming `MaxTempAssumption` (`MaxTemp \in Nat`). The strengthening
`ModesMatchGlobals` says two things:

- Before serving, nothing has been answered.
- While serving, every recorded mode matches `UsesRealModel`. This holds
  because no handler writes a global, and the 503 gate is the negation
  of the real branch.

The invariant was checked with TLC first (135 states).

**`ConfigPatcherProofs`: `DumpWritesFix`: `Spec => CompletedRunsFix`.**
This is an action property. It is proved from the invariant
`RunCarriesFix`, which says three things:

- `config.json`, whenever it is a JSON document, is the original or the
  dumped fix.
- A run at the patch holds one of the two configs in memory.
- A run past the patch holds the fix.

The invariant rests on the lemma `PatchIsFix`: the script's patch
(lines 19-36) equals the spec's fix on every config, and it is
idempotent, because `code_predictor_config` only exists inside
`talker_config`. The invariant was checked with TLC first (600 states).
The last step derives `[][Dump => ...]_vars` from
`[]FInv` (`FInv` is `TypeOK /\ RunCarriesFix`) and `[][Next]_vars` with PTL.

**`FallbackAudioProofs`: `LongerTextNeverShorter`, `FasterNeverLonger`,
`AnyCjkSetsRate`.** TLC checks these for texts of up to 7
characters. The proofs cover texts of every length and every speed on
the 0.25 grid of the range `TTSRequest` accepts (`SpeedQuarters`); other
speeds in that range are not covered. They rest on these lemmas:

- `ClampMonotone` and `ClampSame`: `max(1.0, _)` keeps the order and the
  equality of two ratios.
- `AppendRate`: one more character never raises the rate, since a CJK
  character stays in the text. This uses `AppendProperties` of
  `SequenceTheorems`.
- `ConstantText`: a run of n equal characters is a sequence of length n.
  `MixedStep` uses it to give the all-CJK text of a mixed text's length
  the rate 3.

The only invariant needed is `TypeOK`. Each step is then an arithmetic
fact about naturals, split into products the SMT solver handles one at a
time. `MaxLenAssumption` (`MaxLen \in Nat \ {0}`) is the only
assumption, and it only serves the harness.

**`TtsServiceProofs`: `TtsImplementsSpeechPath`: `Spec => ImplementsSpeechPath`.**
This is the whole refinement, because neither specification has
fairness. It needs no invariant:

- `PathValues` gives the value of `PathOf` in each phase.
- `LifespanRefines` shows that every lifespan step stutters in
  "starting", settles the path, or stops it.
- `HandlerRefines` shows that each handler answers in a mode of the path
  it reads, because the 503 gate of line 231 is the negation of the
  branch of line 150. Health and root stutter.

**Left to TLC.**

- `LoadEnds` and the liveness in `LoaderRefinesLoadState`, both refuted
  by TLC. TLAPS cannot reason about `ENABLED` or fairness.
- The violated properties, which TLC refutes with a trace.

## 9. Not modelled

- The token-level work of the adapters: templating, tokenisation,
  decoding and token counts. These are data transformations inside
  `transformers`, and no property here tells them apart.
- The device strings.
- `/v1/models`, which returns a constant.
- `scripts/test_qwen3_omni.py`. It is a manual, sequential load test
  with no shared state.
- The samples of the sine wave and its fade envelope. Only the duration
  is modelled.
- A limit on the temporary files that `/v1/audio/speech` leaves behind
  (main.py 253). The code never deletes them, so the only property would
  be that disk use grows without limit. The model bounds the count with
  `MaxTemp` to stay finite.
- A patcher run concurrent with the Omni loader (see section 2).
