-------------------------- MODULE NativesAndroid ---------------------------
(****************************************************************************)
(* The native methods of android.* and androidx.*.                          *)
(* A table is a set of <<class, members>>: the members it registers for the   *)
(* class.  A member is its name, with its descriptor in simple class names    *)
(* where the tables use the name with more than one descriptor.  No two       *)
(* entries have one class, name and descriptor, so the order of registration  *)
(* cannot be seen and is left out, and so is the Rust function registered.    *)
(****************************************************************************)

(* android/graphics.rs, 797 to 946 *)
GRAPHICS_TABLE_1 ==
    { <<"android/graphics/Bitmap",
         {"getWidth", "getHeight", "getPixel", "getPixels", "setPixels", "recycle",
          "eraseColor", "copy", "createBitmap(I,I,Bitmap$Config)Bitmap",
          "createBitmap(Bitmap,I,I,I,I)Bitmap", "compress"}>>,
      <<"android/graphics/BitmapFactory",
         {"decodeStream", "decodeByteArray([B,I,I)Bitmap",
          "decodeByteArray([B,I,I,BitmapFactory$Options)Bitmap"}>>,
      <<"android/graphics/BitmapFactory$Options", {"<init>()V"}>>,
      <<"android/graphics/Canvas",
         {"<init>(Bitmap)V", "drawBitmap(Bitmap,Rect,Rect,Paint)V",
          "drawBitmap(Bitmap,F,F,Paint)V", "drawColor", "save", "restore", "translate",
          "rotate"}>> }

(* android/graphics.rs, 947 to 1091 *)
GRAPHICS_TABLE_2 ==
    { <<"android/graphics/Paint",
         {"<init>()V", "setColor", "setTextSize", "setStrokeWidth", "setStyle",
          "setAntiAlias", "setTypeface", "getColor", "getStyle", "getTextSize",
          "getFontMetrics"}>>,
      <<"android/graphics/Rect",
         {"<init>()V", "<init>(I,I,I,I)V", "set(I,I,I,I)V", "width", "height"}>>,
      <<"android/graphics/ImageDecoder", {"decodeBitmap"}>>,
      <<"android/graphics/pdf/PdfRenderer$Page", {"<init>()V", "render"}>>,
      <<"android/text/TextPaint", {"<init>()V"}>>,
      <<"android/text/StaticLayout",
         {"<init>(android/text/CharSequence,android/text/TextPaint,I,android/text/Layout$Alignment,F,F,Z)V"}>>,
      <<"android/text/StaticLayout$Builder",
         {"obtain(android/text/CharSequence,I,I,android/text/TextPaint,I)android/text/StaticLayout$Builder",
          "build()StaticLayout"}>>,
      <<"android/text/Layout", {"draw"}>> }

(* android/mod.rs, 1807 to 1954 *)
ANDROID_TABLE_1 ==
    { <<"android/content/Intent",
         {"<init>()V", "<init>(String)V", "putExtra(String,String)Intent",
          "putExtra(String,J)Intent", "getData", "setAction"}>>,
      <<"android/content/ContextWrapper",
         {"startActivity", "getPackageName", "getCacheDir"}>>,
      <<"android/content/Context",
         {"getPackageName", "getSharedPreferences", "getCacheDir"}>>,
      <<"android/app/Activity", {"<init>()V", "finish", "getIntent", "onCreate"}>>,
      <<"android/util/Log", {"e(String,String,Throwable)I"}>>,
      <<"android/content/SharedPreferences",
         {"getBoolean(String,Z)Z", "getString(String,String)String",
          "contains(String)Z", "containsKey(String)Z"}>> }

(* android/mod.rs, 1955 to 2102 *)
ANDROID_TABLE_2 ==
    { <<"android/content/SharedPreferences",
         {"getStringSet", "getInt(String,I)I", "getLong(String,J)J",
          "getFloat(String,F)F", "edit"}>>,
      <<"android/content/SharedPreferences$Editor",
         {"putBoolean", "putString", "remove(String)SharedPreferences$Editor",
          "putInt(String,I)SharedPreferences$Editor", "putLong", "putFloat",
          "clear()SharedPreferences$Editor", "apply", "commit"}>>,
      <<"android/util/Base64", {"decode(String,I)[B", "encodeToString([B,I)String"}>>,
      <<"android/os/SystemClock", {"elapsedRealtime"}>>,
      <<"android/widget/TextView",
         {"addTextChangedListener", "setHint", "setHorizontallyScrolling",
          "setInputType"}>> }

(* android/mod.rs, 2103 to 2246 *)
ANDROID_TABLE_3 ==
    { <<"android/widget/TextView", {"getError", "setError", "setMovementMethod"}>>,
      <<"android/widget/EditText", {"selectAll"}>>,
      <<"android/view/View",
         {"findViewById", "getRootView", "setEnabled", "post(Runnable)Z", "layout",
          "measure", "getParent()ViewParent"}>>,
      <<"android/view/ViewGroup", {"getChildCount", "getChildAt"}>>,
      <<"android/view/ViewGroup$LayoutParams", {"<init>(I,I)V"}>>,
      <<"android/view/View$MeasureSpec", {"makeMeasureSpec"}>>,
      <<"android/widget/Toast", {"makeText", "show"}>>,
      <<"android/os/Looper", {"getMainLooper", "myLooper"}>>,
      <<"android/os/Handler",
         {"<init>(Looper)V", "post(Runnable)Z", "postDelayed", "removeCallbacks"}>> }

(* android/mod.rs, 2247 to 2396 *)
ANDROID_TABLE_4 ==
    { <<"android/os/ParcelFileDescriptor", {"open"}>>,
      <<"android/webkit/WebView",
         {"<init>(Context)V", "getSettings", "destroy", "stopLoading",
          "evaluateJavascript", "loadDataWithBaseURL", "loadUrl(String)V",
          "loadUrl(String,Map)V", "addJavascriptInterface",
          "removeJavascriptInterface", "setWebViewClient", "setWebChromeClient",
          "setLayoutParams", "setLayerType", "onResume", "resumeTimers"}>>,
      <<"android/webkit/WebViewClient",
         {"<init>()V", "shouldInterceptRequest", "onPageFinished", "onPageStarted"}>>,
      <<"android/webkit/WebChromeClient", {"<init>()V"}>>,
      <<"android/webkit/WebSettings", {"setJavaScriptEnabled"}>> }

(* android/mod.rs, 2397 to 2543 *)
ANDROID_TABLE_5 ==
    { <<"android/webkit/WebSettings",
         {"setDomStorageEnabled", "setBlockNetworkImage", "setUserAgentString",
          "setLoadWithOverviewMode", "setUseWideViewPort", "setDatabaseEnabled",
          "setBlockNetworkLoads", "setLoadsImagesAutomatically", "getUserAgentString",
          "getBlockNetworkImage", "getDomStorageEnabled", "getJavaScriptEnabled",
          "getLoadWithOverviewMode", "getUseWideViewPort", "getDefaultUserAgent"}>>,
      <<"android/webkit/ConsoleMessage$MessageLevel",
         {"values()[ConsoleMessage$MessageLevel"}>>,
      <<"android/webkit/ConsoleMessage",
         {"lineNumber", "message()String", "messageLevel", "sourceId"}>>,
      <<"android/webkit/RenderProcessGoneDetail", {"didCrash"}>> }

(* android/mod.rs, 2544 to 2692 *)
ANDROID_TABLE_6 ==
    { <<"android/webkit/WebResourceRequest",
         {"getUrl()Uri", "getRequestHeaders", "getMethod", "isForMainFrame"}>>,
      <<"android/webkit/WebResourceResponse",
         {"<init>(String,String,InputStream)V",
          "<init>(String,String,I,String,Map,InputStream)V", "getStatusCode"}>>,
      <<"android/webkit/SslErrorHandler", {"proceed()V"}>>,
      <<"android/webkit/URLUtil", {"isValidUrl"}>>,
      <<"android/webkit/CookieManager",
         {"getInstance()CookieManager", "setCookie", "getCookie", "setAcceptCookie",
          "setAcceptThirdPartyCookies"}>>,
      <<"android/text/Html", {"fromHtml"}>>,
      <<"android/text/StaticLayout", {"getLineCount"}>>,
      <<"android/text/Layout", {"getHeight"}>>,
      <<"android/text/StaticLayout$Builder",
         {"setBreakStrategy", "setHyphenationFrequency", "setAlignment",
          "setIncludePad"}>>,
      <<"android/text/SpannableString", {"<init>(CharSequence)V"}>> }

(* android/mod.rs, 2693 to 2841 *)
ANDROID_TABLE_7 ==
    { <<"android/text/method/LinkMovementMethod", {"getInstance()MovementMethod"}>>,
      <<"android/text/util/Linkify", {"addLinks"}>>,
      <<"android/net/Uri",
         {"encode(String)String", "parse(String)Uri", "buildUpon", "getHost",
          "getPath", "getEncodedPath", "getEncodedQuery"}>>,
      <<"android/net/Uri$Builder",
         {"appendQueryParameter", "appendPath", "appendEncodedPath",
          "fragment(String)Uri$Builder", "build()Uri", "toString()String"}>>,
      <<"android/content/SharedPreferences$Editor", {"putStringSet"}>>,
      <<"android/content/ComponentName", {"<init>(Context,String)V"}>>,
      <<"android/content/ContextWrapper",
         {"getExternalCacheDir", "getApplicationInfo", "getSystemService"}>>,
      <<"android/content/Intent", {"addFlags"}>> }

(* android/mod.rs, 2842 to 2989 *)
ANDROID_TABLE_8 ==
    { <<"android/content/Intent", {"setComponent"}>>,
      <<"android/util/Log",
         {"e(String,String)I", "d(String,String)I", "d(String,String,Throwable)I",
          "wtf", "println(I,String,String)I"}>>,
      <<"android/util/Base64", {"decode([B,I)[B", "encode([B,I)[B"}>>,
      <<"android/util/Base64InputStream", {"<init>(InputStream,I)V"}>>,
      <<"android/util/JsonReader",
         {"<init>(Reader)V", "hasNext", "nextString", "nextName", "peek", "nextDouble",
          "nextNull", "beginArray", "beginObject", "endArray", "endObject",
          "skipValue"}>> }

(* android/mod.rs, 2990 to 3139 *)
ANDROID_TABLE_9 ==
    { <<"android/util/LruCache", {"<init>(I)V", "get(Object)Object"}>>,
      <<"android/content/res/Resources", {"getSystem", "getDisplayMetrics"}>>,
      <<"android/app/ActivityManager$MemoryInfo", {"<init>()V"}>>,
      <<"android/app/ActivityManager", {"getMemoryInfo"}>>,
      <<"android/graphics/Typeface", {"createFromFile"}>>,
      <<"android/graphics/ImageDecoder", {"createSource", "setAllocator"}>>,
      <<"android/graphics/pdf/PdfRenderer",
         {"<init>(ParcelFileDescriptor)V", "getPageCount", "openPage"}>>,
      <<"android/graphics/pdf/PdfRenderer$Page", {"getWidth", "getHeight"}>>,
      <<"android/icu/text/BreakIterator",
         {"getCharacterInstance", "getWordInstance", "first()I", "next()I",
          "getRuleStatus", "setText(CharacterIterator)V"}>>,
      <<"android/icu/text/Collator", {"getInstance()android/icu/text/Collator"}>> }

(* android/mod.rs, 3140 to 3239 *)
ANDROID_TABLE_10 ==
    { <<"android/icu/text/RuleBasedCollator",
         {"setCaseLevel", "setDecomposition", "setStrength"}>>,
      <<"android/icu/text/Normalizer2",
         {"getNFKCCasefoldInstance", "normalize(CharSequence)String"}>>,
      <<"android/icu/text/SearchIterator",
         {"first()I", "next()I", "getMatchedText", "setOverlapping"}>>,
      <<"android/icu/text/StringSearch",
         {"<init>(String,CharacterIterator,RuleBasedCollator)V", "setPattern",
          "setTarget"}>>,
      <<"android/text/StaticLayout",
         {"<init>(java/lang/CharSequence,android/text/TextPaint,I,android/text/Layout$Alignment,F,F,Z)V"}>>,
      <<"android/text/StaticLayout$Builder",
         {"obtain(java/lang/CharSequence,I,I,android/text/TextPaint,I)android/text/StaticLayout$Builder"}>> }

(* androidx/preference.rs, 5 to 152 *)
preference_TABLE_1 ==
    { <<"androidx/preference/PreferenceScreen", {"addPreference"}>>,
      <<"androidx/preference/EditTextPreference",
         {"setOnPreferenceChangeListener", "setOnBindEditTextListener",
          "setDialogMessage", "setDialogTitle", "setText(String)V", "setEnabled"}>>,
      <<"androidx/preference/ListPreference",
         {"setEntries", "setEntryValues", "getEntries", "getEntryValues",
          "getKey()String", "findIndexOfValue", "setOnPreferenceChangeListener"}>>,
      <<"androidx/preference/MultiSelectListPreference",
         {"setEntries", "setEntryValues", "getEntries", "getEntryValues",
          "setOnPreferenceChangeListener", "setEnabled", "setDialogTitle"}>> }

(* androidx/preference.rs, 153 to 299 *)
preference_TABLE_2 ==
    { <<"androidx/preference/CheckBoxPreference",
         {"setOnPreferenceChangeListener", "setVisible", "getKey()String"}>>,
      <<"androidx/preference/EditTextPreference",
         {"getKey()String", "setOnPreferenceClickListener"}>>,
      <<"androidx/preference/Preference",
         {"setOnPreferenceChangeListener", "<init>(Context)V", "setKey",
          "setTitle(CharSequence)V", "setSummary", "setDefaultValue"}>>,
      <<"androidx/preference/SwitchPreferenceCompat",
         {"setSummaryOff", "setSummaryOn", "setOnPreferenceChangeListener",
          "<init>(Context)V", "setKey", "setTitle(CharSequence)V", "setSummary"}>>,
      <<"androidx/preference/PreferenceScreen",
         {"<init>(Context)V", "getContext", "setTitle(CharSequence)V"}>> }

(* androidx/preference.rs, 300 to 321 *)
preference_TABLE_3 ==
    { <<"androidx/preference/SwitchPreferenceCompat",
         {"setDefaultValue", "setEnabled", "setVisible"}>> }

(* The tables that need android. *)
AndroidTablesWithAndroid ==
    GRAPHICS_TABLE_1 \cup GRAPHICS_TABLE_2 \cup ANDROID_TABLE_1 \cup
    ANDROID_TABLE_2 \cup ANDROID_TABLE_3 \cup ANDROID_TABLE_4 \cup ANDROID_TABLE_5 \cup
    ANDROID_TABLE_6 \cup ANDROID_TABLE_7 \cup ANDROID_TABLE_8 \cup ANDROID_TABLE_9 \cup
    ANDROID_TABLE_10 \cup preference_TABLE_1 \cup preference_TABLE_2 \cup
    preference_TABLE_3

=============================================================================
